---- MODULE Spec2Model ----
(***************************************************************************)
(* Exact-match index of the SOP standardization backend                    *)
(* (src/backend/exact_match_service.py, class ExactMatchService).          *)
(*                                                                         *)
(* The state is the four in-memory maps of one ExactMatchService object,   *)
(* the persistence file ./exact_match_data.json, and the last completed    *)
(* mutating call with its return value.  Every public method is one action;*)
(* the value a query returns is an operator over the state.                *)
(*                                                                         *)
(* Python dicts and sets are modelled as functions and sets: the order in  *)
(* which a dict or a set is iterated is not part of the model, and result  *)
(* lists built by iterating a set are built in ascending hash order.       *)
(* A ChunkRef keeps document_name and chunk_index; the other fields of the *)
(* dict (section_number, section_title, content, text_preview, word_count, *)
(* char_count) are copied from the chunk and never read by the index.      *)
(***************************************************************************)
EXTENDS Integers, Sequences, FiniteSets, TLC

\* ---------------------------------------------------------------- bounds
\* Number of add_document_chunks calls in one run (the ref lists only grow
\* by these calls, so this bounds every list): MaxAdds in Spec, and
\* MaxAddsDeep in SpecDeep for the cases that take one more call.
MaxAdds == 2
MaxAddsDeep == 3

Docs == {"A", "B"}
\* The chunk_index values of the chunks of one call: chunk i of a list
\* carries chunk_index i, and a list has at most one chunk per index.
ChunkIndexes == {0, 1}
\* Content hashes and sentence hashes (SHA-256 digests in the program).
Hashes == {1, 2}
SentHashes == {1}
\* chunk.get('content_hash') of a chunk whose hash is missing or empty: falsy.
NoHash == 0

VARIABLES
    hash_to_documents,            \* content_hash -> list of ChunkRef
    document_to_hashes,           \* document_name -> set of content_hash
    sentence_hash_to_documents,   \* sentence_hash -> list of sentence refs
    document_to_sentence_hashes,  \* document_name -> set of sentence_hash
    persistence_file,             \* contents of ./exact_match_data.json
    last,                         \* the last completed mutating call and its result
    adds,                         \* add_document_chunks calls made so far
    threads,                      \* the calls that run in threads, each with its locals
    vector_db,                    \* document_name -> chunks held by the vector store
    text,                         \* the document text handed to the SectionChunker
    sections,                     \* what detect_sections returned for it
    section_chunks                \* what create_section_chunks returned for it

maps == <<hash_to_documents, document_to_hashes,
          sentence_hash_to_documents, document_to_sentence_hashes>>
\* The index, its file and the call counters.
index == <<hash_to_documents, document_to_hashes,
           sentence_hash_to_documents, document_to_sentence_hashes,
           persistence_file, last, adds>>
\* The SectionChunker's input and results.
chunker == <<text, sections, section_chunks>>
vars == <<hash_to_documents, document_to_hashes,
          sentence_hash_to_documents, document_to_sentence_hashes,
          persistence_file, last, adds, threads, vector_db, text, sections, section_chunks>>

\* ---------------------------------------------------------------- helpers
EmptyMap == [k \in {} |-> {}]

\* d[k] = v on a dict: the key is created when it is missing.
Put(d, k, v) == [x \in DOMAIN d \cup {k} |-> IF x = k THEN v ELSE d[x]]

\* del d[k]
Del(d, k) == [x \in DOMAIN d \ {k} |-> d[x]]

\* defaultdict(list)[k]: a missing key is created with an empty list.
GetList(d, k) == IF k \in DOMAIN d THEN d[k] ELSE <<>>
TouchList(d, k) == IF k \in DOMAIN d THEN d ELSE Put(d, k, <<>>)

\* defaultdict(set)[k]: a missing key is created with an empty set.
GetSet(d, k) == IF k \in DOMAIN d THEN d[k] ELSE {}

Min(S) == CHOOSE x \in S : \A y \in S : x <= y

\* list(a_set): the members, each once.
RECURSIVE SetToList(_)
SetToList(S) == IF S = {} THEN <<>> ELSE <<Min(S)>> \o SetToList(S \ {Min(S)})

\* set(a_list)
ListToSet(s) == {s[i] : i \in DOMAIN s}

\* [doc for doc in refs if doc['document_name'] != name]
OtherRefs(refs, name) == SelectSeq(refs, LAMBDA r : r.document_name # name)
OwnRefs(refs, name) == SelectSeq(refs, LAMBDA r : r.document_name = name)

\* next((doc for doc in refs if doc['document_name'] == name), None)
None == [none |-> TRUE]
FirstRef(refs, name) ==
    IF OwnRefs(refs, name) = <<>> THEN None ELSE Head(OwnRefs(refs, name))

\* ---------------------------------------------------------------- inputs
\* The chunks handed to add_document_chunks come from
\* SectionChunker.create_section_chunks, which derives content_hash and
\* sentence_hashes from the same text: the sentence hashes of a chunk are a
\* function of its content.  Content 1 has one hashed sentence; content 2 is a
\* chunk without sentence hashes (a sub-chunk of _subdivide_large_section has
\* no 'sentence_hashes' key); the third content lacks a content hash.
SentencesOf(h) ==
    IF h = 2 THEN <<>>
    ELSE <<[sentence_hash |-> CHOOSE s \in SentHashes : TRUE, sentence_index |-> 0]>>

ChunkAt(i) == {[content_hash |-> h, chunk_index |-> i,
                sentence_hashes |-> SentencesOf(h)] : h \in Hashes \cup {NoHash}}
\* The chunk lists of one call: chunk i carries chunk_index i.
ChunkLists ==
    UNION {{s \in [1..n -> UNION {ChunkAt(i) : i \in ChunkIndexes}] :
               \A i \in 1..n : s[i].chunk_index = i - 1} :
           n \in 0..Cardinality(ChunkIndexes)}

\* ---------------------------------------------------------------- add
chunk_ref(document_name, chunk) ==
    [document_name |-> document_name, chunk_index |-> chunk.chunk_index]

sentence_ref(document_name, chunk, sentence_data) ==
    [document_name |-> document_name,
     chunk_index |-> chunk.chunk_index,
     sentence_index |-> sentence_data.sentence_index]

\* The inner loop over chunk.get('sentence_hashes', []): m is the pair
\* <<sentence_hash_to_documents, document_to_sentence_hashes>>.
RECURSIVE AddSentences(_, _, _, _)
AddSentences(m, document_name, chunk, sents) ==
    IF sents = <<>> THEN m
    ELSE LET sd == Head(sents)
             sh == sd.sentence_hash
             m2 == IF sh = NoHash THEN m
                   ELSE <<Put(m[1], sh, Append(GetList(m[1], sh),
                                               sentence_ref(document_name, chunk, sd))),
                          Put(m[2], document_name,
                              GetSet(m[2], document_name) \cup {sh})>>
         IN AddSentences(m2, document_name, chunk, Tail(sents))

\* One iteration of the loop over chunks: m is the tuple of the four maps.
AddChunkOnce(m, document_name, chunk) ==
    IF chunk.content_hash = NoHash THEN m
    ELSE LET h == chunk.content_hash
             s == AddSentences(<<m[3], m[4]>>, document_name, chunk,
                               chunk.sentence_hashes)
         IN <<IF OwnRefs(GetList(m[1], h), document_name) # <<>> THEN m[1]
              ELSE Put(m[1], h, Append(GetList(m[1], h),
                                       chunk_ref(document_name, chunk))),
              Put(m[2], document_name, GetSet(m[2], document_name) \cup {h}),
              s[1], s[2]>>

\* The loop body with the content-hash test moved behind the sentence loop: a
\* chunk without content hash still has its sentence hashes indexed.
AddChunkSentencesFirst(m, document_name, chunk) ==
    LET h == chunk.content_hash
        s == AddSentences(<<m[3], m[4]>>, document_name, chunk,
                          chunk.sentence_hashes)
    IN IF h = NoHash THEN <<m[1], m[2], s[1], s[2]>>
       ELSE <<Put(m[1], h, Append(GetList(m[1], h), chunk_ref(document_name, chunk))),
              Put(m[2], document_name, GetSet(m[2], document_name) \cup {h}),
              s[1], s[2]>>

\* The loop body with the ref list of the hash assigned instead of appended to.
AddChunkReplacing(m, document_name, chunk) ==
    IF chunk.content_hash = NoHash THEN m
    ELSE LET h == chunk.content_hash
             s == AddSentences(<<m[3], m[4]>>, document_name, chunk,
                               chunk.sentence_hashes)
         IN <<Put(m[1], h, <<chunk_ref(document_name, chunk)>>),
              Put(m[2], document_name, GetSet(m[2], document_name) \cup {h}),
              s[1], s[2]>>

AddChunk(m, document_name, chunk) ==
    IF chunk.content_hash = NoHash THEN m
    ELSE LET h == chunk.content_hash
             s == AddSentences(<<m[3], m[4]>>, document_name, chunk,
                               chunk.sentence_hashes)
         IN <<Put(m[1], h, Append(GetList(m[1], h), chunk_ref(document_name, chunk))),
              Put(m[2], document_name, GetSet(m[2], document_name) \cup {h}),
              s[1], s[2]>>

RECURSIVE AddChunks(_, _, _)
AddChunks(m, document_name, chunks) ==
    IF chunks = <<>> THEN m
    ELSE AddChunks(AddChunk(m, document_name, Head(chunks)), document_name, Tail(chunks))

\* _save_data without the entry 'document_to_sentence_hashes'.
save_data_three_maps(m) ==
    [hash_to_documents |-> m[1],
     sentence_hash_to_documents |-> m[3],
     document_to_hashes |-> [d \in DOMAIN m[2] |-> SetToList(m[2][d])]]

\* _save_data: sets become lists, defaultdicts become dicts.
save_data(m) ==
    [hash_to_documents |-> m[1],
     sentence_hash_to_documents |-> m[3],
     document_to_hashes |-> [d \in DOMAIN m[2] |-> SetToList(m[2][d])],
     document_to_sentence_hashes |-> [d \in DOMAIN m[4] |-> SetToList(m[4][d])]]

NoFile == [exists |-> FALSE]

\* What the file may hold besides a saved index: text json.load rejects, a
\* JSON value that is no object, and an object some of whose top-level keys
\* hold a value that is no object (a number, a string, null or a list of
\* numbers: defaultdict(list, v) and v.items() reject them alike).  The keys
\* with such a value are listed under not_objects.
Garbage == [exists |-> TRUE, json |-> FALSE]
JsonNumber == [json |-> "number"]
NotObjects(data) == IF "not_objects" \in DOMAIN data THEN data.not_objects ELSE {}
IsDict(data, key) == key \notin NotObjects(data)

\* data.get(key, {})
DataGet(data, key) == IF key \in DOMAIN data THEN data[key] ELSE EmptyMap
\* {doc: set(hashes) for doc, hashes in ....items()}
Sets(d) == [k \in DOMAIN d |-> ListToSet(d[k])]

\* _load_data on the empty maps of __init__: lists become sets again.  The
\* four maps are assigned one after the other inside one try block, so an
\* exception keeps what was assigned before it.
load_data(file) ==
    LET none == <<EmptyMap, EmptyMap, EmptyMap, EmptyMap>>
    IN IF file = NoFile \/ file = Garbage \/ file = JsonNumber THEN none
       ELSE LET h2d == DataGet(file, "hash_to_documents")
                s2d == DataGet(file, "sentence_hash_to_documents")
                d2h == DataGet(file, "document_to_hashes")
                d2s == DataGet(file, "document_to_sentence_hashes")
            IN IF ~IsDict(file, "hash_to_documents") THEN none
               ELSE IF ~IsDict(file, "sentence_hash_to_documents")
                    THEN <<h2d, EmptyMap, EmptyMap, EmptyMap>>
               ELSE IF ~IsDict(file, "document_to_hashes")
                    THEN <<h2d, EmptyMap, s2d, EmptyMap>>
               ELSE IF ~IsDict(file, "document_to_sentence_hashes")
                    THEN <<h2d, Sets(d2h), s2d, EmptyMap>>
               ELSE <<h2d, Sets(d2h), s2d, Sets(d2s)>>

add_document_chunks(document_name, chunks) ==
    LET m == AddChunks(maps, document_name, chunks)
    IN /\ adds' = adds + 1
       /\ hash_to_documents' = m[1]
       /\ document_to_hashes' = m[2]
       /\ sentence_hash_to_documents' = m[3]
       /\ document_to_sentence_hashes' = m[4]
       /\ persistence_file' = save_data(m)
       /\ last' = [op |-> "add_document_chunks", doc |-> document_name,
                   chunks |-> chunks]

\* _save_data when the write fails: open() raises and the file stays as it
\* was, or json.dump raises after open() truncated the file and what is left
\* does not parse.  The except clause of _save_data logs the error; the
\* method reads the maps and assigns none of them.
WriteFailures == {"open", "dump"}

save_data_fails_reloading(m, file, failure) ==
    [maps |-> load_data(file),
     file |-> IF failure = "open" THEN file ELSE Garbage,
     raised |-> FALSE]

save_data_fails(m, file, failure) ==
    [maps |-> m,
     file |-> IF failure = "open" THEN file ELSE Garbage,
     raised |-> FALSE]

\* add_document_chunks when its _save_data call fails.
add_document_chunks_write_fails(document_name, chunks, failure) ==
    LET r == save_data_fails(AddChunks(maps, document_name, chunks),
                             persistence_file, failure)
    IN /\ adds' = adds + 1
       /\ hash_to_documents' = r.maps[1]
       /\ document_to_hashes' = r.maps[2]
       /\ sentence_hash_to_documents' = r.maps[3]
       /\ document_to_sentence_hashes' = r.maps[4]
       /\ persistence_file' = r.file
       /\ last' = [op |-> "add_document_chunks", doc |-> document_name,
                   chunks |-> chunks, write |-> failure, raised |-> r.raised]

\* ---------------------------------------------------------------- remove
\* The body of the loop of remove_document for one hash that is a key of
\* hash_to_documents: the document's entries are filtered out, and the key is
\* deleted when no entry is left.
StripHashDropKey(h2d, content_hash, document_name) == Del(h2d, content_hash)

StripHashKeepShared(h2d, content_hash, document_name) ==
    IF OtherRefs(h2d[content_hash], document_name) = <<>>
    THEN Del(h2d, content_hash) ELSE h2d

StripHashKeepEmpty(h2d, content_hash, document_name) ==
    Put(h2d, content_hash, OtherRefs(h2d[content_hash], document_name))

StripHash(h2d, content_hash, document_name) ==
    LET rest == OtherRefs(h2d[content_hash], document_name)
    IN IF rest = <<>> THEN Del(h2d, content_hash) ELSE Put(h2d, content_hash, rest)

\* doc['document_name'] raises KeyError on a ref that lacks the key.
Nameless(refs) == \E i \in DOMAIN refs : "document_name" \notin DOMAIN refs[i]

\* The loop over document_hashes; acc is the triple
\* <<hash_to_documents, removed_count, raised>>.  An exception leaves the loop
\* with what the earlier iterations did.
RECURSIVE RemoveHashes(_, _, _)
RemoveHashes(acc, document_name, hashes) ==
    IF hashes = {} THEN acc
    ELSE LET h == Min(hashes)
         IN IF h \in DOMAIN acc[1] /\ Nameless(acc[1][h])
            THEN <<acc[1], acc[2], TRUE>>
            ELSE LET acc2 == IF h \in DOMAIN acc[1]
                             THEN <<StripHash(acc[1], h, document_name), acc[2] + 1, FALSE>>
                             ELSE acc
                 IN RemoveHashes(acc2, document_name, hashes \ {h})

\* remove_document without 'del self.document_to_hashes[document_name]'.
RemoveOutcomeKeepsKey(document_name) ==
    IF document_name \notin DOMAIN document_to_hashes
    THEN [hash_to_documents |-> hash_to_documents,
          document_to_hashes |-> document_to_hashes, ret |-> 0, failed |-> FALSE]
    ELSE LET r == RemoveHashes(<<hash_to_documents, 0, FALSE>>, document_name,
                               document_to_hashes[document_name])
         IN [hash_to_documents |-> r[1], document_to_hashes |-> document_to_hashes,
             ret |-> IF r[3] THEN 0 ELSE r[2], failed |-> r[3]]

\* What remove_document does to the two content maps and what it returns;
\* the except clause logs the exception and returns 0.
RemoveOutcome(document_name) ==
    IF document_name \notin DOMAIN document_to_hashes
    THEN [hash_to_documents |-> hash_to_documents,
          document_to_hashes |-> document_to_hashes, ret |-> 0, failed |-> FALSE]
    ELSE LET r == RemoveHashes(<<hash_to_documents, 0, FALSE>>, document_name,
                               document_to_hashes[document_name])
         IN IF r[3]
            THEN [hash_to_documents |-> r[1],
                  document_to_hashes |-> document_to_hashes, ret |-> 0, failed |-> TRUE]
            ELSE [hash_to_documents |-> r[1],
                  document_to_hashes |-> Del(document_to_hashes, document_name),
                  ret |-> r[2], failed |-> FALSE]

remove_document(document_name) ==
    LET r == RemoveOutcome(document_name)
    IN /\ hash_to_documents' = r.hash_to_documents
       /\ document_to_hashes' = r.document_to_hashes
       /\ last' = [op |-> "remove_document", doc |-> document_name, ret |-> r.ret]
       /\ UNCHANGED <<sentence_hash_to_documents, document_to_sentence_hashes,
                      persistence_file, adds>>

\* ---------------------------------------------------------------- queries
\* What each query returns, as a function of the index it reads.
NotFound == [error |-> "Document not found", matches |-> <<>>]
PairNotFound == [error |-> "One or both documents not found"]

IsError(result) == "error" \in DOMAIN result

\* match_info of find_exact_matches for one hash of the document.
MatchInfoNoFilter(h2d, content_hash, document_name) ==
    [content_hash |-> content_hash,
     matching_documents |-> GetList(h2d, content_hash),
     total_matches |-> Len(GetList(h2d, content_hash)),
     section_info |-> FirstRef(GetList(h2d, content_hash), document_name)]

MatchInfo(h2d, content_hash, document_name) ==
    [content_hash |-> content_hash,
     matching_documents |-> OtherRefs(GetList(h2d, content_hash), document_name),
     total_matches |-> Len(GetList(h2d, content_hash)),
     section_info |-> FirstRef(GetList(h2d, content_hash), document_name)]

\* The loop of find_exact_matches over the document's hashes.
RECURSIVE ExactMatches(_, _, _)
ExactMatches(h2d, hashes, document_name) ==
    IF hashes = <<>> THEN <<>>
    ELSE LET h == Head(hashes)
             refs == GetList(h2d, h)
         IN (IF Len(refs) > 1 /\ OtherRefs(refs, document_name) # <<>>
             THEN <<MatchInfo(h2d, h, document_name)>> ELSE <<>>)
            \o ExactMatches(h2d, Tail(hashes), document_name)

find_exact_matches(document_name) ==
    IF document_name \notin DOMAIN document_to_hashes THEN NotFound
    ELSE LET document_hashes == document_to_hashes[document_name]
             matches == ExactMatches(hash_to_documents, SetToList(document_hashes),
                                     document_name)
         IN [document |-> document_name,
             total_unique_sections |-> Cardinality(document_hashes),
             exact_matches |-> Len(matches),
             matches |-> matches]

\* The test with a list of two ChunkRefs not taken for a duplicate.
IsDuplicateOfThree(documents) == Len(documents) > 2

\* The test of find_duplicate_sections on one item of hash_to_documents.
IsDuplicate(documents) == Len(documents) > 1

\* The loop of find_duplicate_sections over hash_to_documents.items();
\* acc is the pair <<duplicates, processed_hashes>>.
RECURSIVE DuplicateScan(_, _, _)
DuplicateScan(h2d, keys, acc) ==
    IF keys = <<>> THEN acc
    ELSE LET h == Head(keys)
             documents == h2d[h]
             acc2 == IF IsDuplicate(documents) /\ h \notin acc[2]
                     THEN <<Append(acc[1], [content_hash |-> h,
                                            duplicate_count |-> Len(documents),
                                            documents |-> documents]),
                            acc[2] \cup {h}>>
                     ELSE acc
         IN DuplicateScan(h2d, Tail(keys), acc2)

find_duplicate_sections ==
    LET duplicates == DuplicateScan(hash_to_documents,
                                    SetToList(DOMAIN hash_to_documents),
                                    <<<<>>, {}>>)[1]
    IN [total_duplicate_sections |-> Len(duplicates),
        total_documents |-> Cardinality(DOMAIN document_to_hashes),
        duplicates |-> duplicates]

\* A Python float that is the quotient of two small integers, kept as the
\* fraction in lowest terms: two quotients are the same float exactly when
\* they are the same rational.
RECURSIVE GCD(_, _)
GCD(a, b) == IF b = 0 THEN a ELSE GCD(b, a % b)
Quotient(n, d) == [num |-> n \div GCD(n, d), den |-> d \div GCD(n, d)]
Zero == [num |-> 0, den |-> 1]

\* (common * 2) / (doc1_total + doc2_total) if (doc1_total + doc2_total) > 0 else 0
SimilarityScoreDoc1Only(common, doc1_total, doc2_total) ==
    IF doc1_total + doc2_total > 0
    THEN Quotient(common * 2, doc1_total + doc1_total) ELSE Zero

SimilarityScore(common, doc1_total, doc2_total) ==
    IF doc1_total + doc2_total > 0
    THEN Quotient(common * 2, doc1_total + doc2_total) ELSE Zero

\* doc1_hashes.intersection(doc2_hashes)
CommonHashesUnion(doc1_hashes, doc2_hashes) == doc1_hashes \cup doc2_hashes
CommonHashes(doc1_hashes, doc2_hashes) == doc1_hashes \cap doc2_hashes

\* The loop over the common hashes of compare_documents_exact and of
\* compare_documents_sentence_level.
RECURSIVE PairMatches(_, _, _, _)
PairMatches(h2d, hashes, doc1_name, doc2_name) ==
    IF hashes = <<>> THEN <<>>
    ELSE LET h == Head(hashes)
             doc1_match == FirstRef(GetList(h2d, h), doc1_name)
             doc2_match == FirstRef(GetList(h2d, h), doc2_name)
         IN (IF doc1_match # None /\ doc2_match # None
             THEN <<[content_hash |-> h, doc1_section |-> doc1_match,
                     doc2_section |-> doc2_match]>>
             ELSE <<>>)
            \o PairMatches(h2d, Tail(hashes), doc1_name, doc2_name)

compare_documents_exact(doc1_name, doc2_name) ==
    IF doc1_name \notin DOMAIN document_to_hashes
       \/ doc2_name \notin DOMAIN document_to_hashes
    THEN PairNotFound
    ELSE LET doc1_hashes == document_to_hashes[doc1_name]
             doc2_hashes == document_to_hashes[doc2_name]
             common_hashes == CommonHashes(doc1_hashes, doc2_hashes)
         IN [doc1 |-> doc1_name, doc2 |-> doc2_name,
             doc1_total_sections |-> Cardinality(doc1_hashes),
             doc2_total_sections |-> Cardinality(doc2_hashes),
             common_sections |-> Cardinality(common_hashes),
             exact_match_score |-> SimilarityScore(Cardinality(common_hashes),
                                                   Cardinality(doc1_hashes),
                                                   Cardinality(doc2_hashes)),
             matches |-> PairMatches(hash_to_documents, SetToList(common_hashes),
                                     doc1_name, doc2_name)]

compare_documents_sentence_level(doc1_name, doc2_name) ==
    IF doc1_name \notin DOMAIN document_to_sentence_hashes
       \/ doc2_name \notin DOMAIN document_to_sentence_hashes
    THEN PairNotFound
    ELSE LET doc1_sentence_hashes == document_to_sentence_hashes[doc1_name]
             doc2_sentence_hashes == document_to_sentence_hashes[doc2_name]
             common == CommonHashes(doc1_sentence_hashes, doc2_sentence_hashes)
         IN [doc1 |-> doc1_name, doc2 |-> doc2_name,
             doc1_total_sentences |-> Cardinality(doc1_sentence_hashes),
             doc2_total_sentences |-> Cardinality(doc2_sentence_hashes),
             common_sentences |-> Cardinality(common),
             sentence_match_score |-> SimilarityScore(Cardinality(common),
                                          Cardinality(doc1_sentence_hashes),
                                          Cardinality(doc2_sentence_hashes)),
             sentence_matches |-> PairMatches(sentence_hash_to_documents,
                                              SetToList(common), doc1_name, doc2_name)]

\* The two loops of get_document_differences.
RECURSIVE Differences(_, _, _)
Differences(h2d, hashes, doc_name) ==
    IF hashes = <<>> THEN <<>>
    ELSE LET h == Head(hashes)
             doc_match == FirstRef(GetList(h2d, h), doc_name)
         IN (IF doc_match # None
             THEN <<[content_hash |-> h, section |-> doc_match]>> ELSE <<>>)
            \o Differences(h2d, Tail(hashes), doc_name)

get_document_differences(doc1_name, doc2_name) ==
    IF doc1_name \notin DOMAIN document_to_hashes
       \/ doc2_name \notin DOMAIN document_to_hashes
    THEN PairNotFound
    ELSE LET doc1_hashes == document_to_hashes[doc1_name]
             doc2_hashes == document_to_hashes[doc2_name]
             d1 == Differences(hash_to_documents, SetToList(doc1_hashes \ doc2_hashes),
                               doc1_name)
             d2 == Differences(hash_to_documents, SetToList(doc2_hashes \ doc1_hashes),
                               doc2_name)
         IN [doc1 |-> doc1_name, doc2 |-> doc2_name,
             doc1_unique_sections |-> d1, doc2_unique_sections |-> d2,
             doc1_unique_count |-> Len(d1), doc2_unique_count |-> Len(d2)]

get_document_stats ==
    [total_documents |-> Cardinality(DOMAIN document_to_hashes),
     total_unique_sections |-> Cardinality(DOMAIN hash_to_documents),
     unique_content_hashes |->
         Cardinality({h \in DOMAIN hash_to_documents : Len(hash_to_documents[h]) = 1}),
     duplicate_content_hashes |->
         Cardinality({h \in DOMAIN hash_to_documents : Len(hash_to_documents[h]) > 1}),
     documents |-> DOMAIN document_to_hashes]

\* self.hash_to_documents[h] for every h a query looks up: reading a missing
\* key of a defaultdict creates it.
RECURSIVE TouchAll(_, _)
TouchAll(d, keys) ==
    IF keys = {} THEN d
    ELSE TouchAll(TouchList(d, Min(keys)), keys \ {Min(keys)})

FindExactMatches(document_name) ==
    /\ hash_to_documents' =
           IF document_name \in DOMAIN document_to_hashes
           THEN TouchAll(hash_to_documents, document_to_hashes[document_name])
           ELSE hash_to_documents
    /\ UNCHANGED <<document_to_hashes, sentence_hash_to_documents,
                   document_to_sentence_hashes, persistence_file, last, adds>>

FindDuplicateSections == UNCHANGED index

CompareDocumentsExact(doc1_name, doc2_name) ==
    /\ hash_to_documents' =
           IF doc1_name \in DOMAIN document_to_hashes
              /\ doc2_name \in DOMAIN document_to_hashes
           THEN TouchAll(hash_to_documents,
                         document_to_hashes[doc1_name] \cap document_to_hashes[doc2_name])
           ELSE hash_to_documents
    /\ UNCHANGED <<document_to_hashes, sentence_hash_to_documents,
                   document_to_sentence_hashes, persistence_file, last, adds>>

CompareDocumentsSentenceLevel(doc1_name, doc2_name) ==
    /\ sentence_hash_to_documents' =
           IF doc1_name \in DOMAIN document_to_sentence_hashes
              /\ doc2_name \in DOMAIN document_to_sentence_hashes
           THEN TouchAll(sentence_hash_to_documents,
                         document_to_sentence_hashes[doc1_name]
                             \cap document_to_sentence_hashes[doc2_name])
           ELSE sentence_hash_to_documents
    /\ UNCHANGED <<hash_to_documents, document_to_hashes,
                   document_to_sentence_hashes, persistence_file, last, adds>>

GetDocumentDifferences(doc1_name, doc2_name) ==
    /\ hash_to_documents' =
           IF doc1_name \in DOMAIN document_to_hashes
              /\ doc2_name \in DOMAIN document_to_hashes
           THEN TouchAll(hash_to_documents,
                         (document_to_hashes[doc1_name] \ document_to_hashes[doc2_name])
                         \cup (document_to_hashes[doc2_name] \ document_to_hashes[doc1_name]))
           ELSE hash_to_documents
    /\ UNCHANGED <<document_to_hashes, sentence_hash_to_documents,
                   document_to_sentence_hashes, persistence_file, last, adds>>

GetDocumentStats == UNCHANGED index

\* ---------------------------------------------------------------- start-up
\* A new process: __init__ creates four empty maps and calls _load_data.
Restart ==
    LET m == load_data(persistence_file)
    IN /\ hash_to_documents' = m[1]
       /\ document_to_hashes' = m[2]
       /\ sentence_hash_to_documents' = m[3]
       /\ document_to_sentence_hashes' = m[4]
       /\ last' = [op |-> "__init__"]
       /\ UNCHANGED <<persistence_file, adds>>

\* No thread is running a call.
NoThreads == [t \in {} |-> {}]
\* The value of a result that has not been computed.
NotRun == [run |-> FALSE]

\* One process, no upload in flight, nothing handed to the chunker.
Idle ==
    /\ threads = NoThreads
    /\ vector_db = EmptyMap
    /\ text = <<>>
    /\ sections = NotRun
    /\ section_chunks = NotRun

Init ==
    /\ Idle
    /\ hash_to_documents = EmptyMap
    /\ document_to_hashes = EmptyMap
    /\ sentence_hash_to_documents = EmptyMap
    /\ document_to_sentence_hashes = EmptyMap
    /\ persistence_file = NoFile
    /\ last = [op |-> "__init__"]
    /\ adds = 0

Add(bound) ==
    /\ adds < bound
    /\ \E d \in Docs, c \in ChunkLists : add_document_chunks(d, c)
    /\ UNCHANGED <<threads, vector_db, chunker>>
Remove ==
    /\ \E d \in Docs : remove_document(d)
    /\ UNCHANGED <<threads, vector_db, chunker>>

Queries ==
    \/ \E d \in Docs : FindExactMatches(d)
    \/ FindDuplicateSections
    \/ \E d1, d2 \in Docs : CompareDocumentsExact(d1, d2)
    \/ \E d1, d2 \in Docs : CompareDocumentsSentenceLevel(d1, d2)
    \/ \E d1, d2 \in Docs : GetDocumentDifferences(d1, d2)
    \/ GetDocumentStats

Query == Queries /\ UNCHANGED <<threads, vector_db, chunker>>

\* A new process reads the file.
Startup == Restart /\ UNCHANGED <<threads, vector_db, chunker>>

\* The mutating calls and the restart of the process.
Next == Add(MaxAdds) \/ Remove \/ Startup

Spec == Init /\ [][Next]_vars

\* The same with one more add_document_chunks call.
NextDeep == Add(MaxAddsDeep) \/ Remove \/ Startup

SpecDeep == Init /\ [][NextDeep]_vars

\* The same with persistence writes that may fail.
AddWriteFails(bound) ==
    /\ adds < bound
    /\ \E d \in Docs, c \in ChunkLists, f \in WriteFailures :
           add_document_chunks_write_fails(d, c, f)
    /\ UNCHANGED <<threads, vector_db, chunker>>

NextWrites == Add(MaxAdds) \/ AddWriteFails(MaxAdds) \/ Remove \/ Startup

SpecWrites == Init /\ [][NextWrites]_vars

\* The same with the queries as steps of their own.
NextQueries == Next \/ Query

SpecQueries == Init /\ [][NextQueries]_vars

\* ---------------------------------------------------------------- pairs
\* Number of content hashes of the two-document indexes below.
NumDiceHashes == 8

\* The chunk list of a document whose sections have the hashes S, in
\* ascending order, chunk i at chunk_index i.
ChunksOf(S) ==
    LET hs == SetToList(S)
    IN [i \in 1..Len(hs) |-> [content_hash |-> hs[i], chunk_index |-> i - 1,
                              sentence_hashes |-> SentencesOf(hs[i])]]

\* Every index made of one add_document_chunks call for "A" and one for "B";
\* hashes are opaque, so "A" holds the hashes 1..a.
InitDice ==
    \E a \in 1..NumDiceHashes, S \in (SUBSET (1..NumDiceHashes)) \ {{}} :
        LET m == AddChunks(AddChunks(<<EmptyMap, EmptyMap, EmptyMap, EmptyMap>>,
                                     "A", ChunksOf(1..a)), "B", ChunksOf(S))
        IN /\ Idle
           /\ hash_to_documents = m[1]
           /\ document_to_hashes = m[2]
           /\ sentence_hash_to_documents = m[3]
           /\ document_to_sentence_hashes = m[4]
           /\ persistence_file = save_data(m)
           /\ last = [op |-> "add_document_chunks", doc |-> "B", chunks |-> ChunksOf(S)]
           /\ adds = 2

NextDice ==
    /\ \E d1, d2 \in Docs : CompareDocumentsExact(d1, d2)
    /\ UNCHANGED <<threads, vector_db, chunker>>

SpecDice == InitDice /\ [][NextDice]_vars

\* ---------------------------------------------------------------- faults
\* The files a process may find at start-up: none, one that does not parse,
\* one that holds a JSON value that is no object, the file _save_data wrote
\* for an index of one document, and that file with one top-level key
\* missing or of the wrong shape, or with ChunkRefs that lack their
\* 'document_name' under one hash.
FileKeys == {"hash_to_documents", "sentence_hash_to_documents",
             "document_to_hashes", "document_to_sentence_hashes"}

SavedFiles ==
    {save_data(AddChunks(<<EmptyMap, EmptyMap, EmptyMap, EmptyMap>>, d, c)) :
        d \in Docs, c \in ChunkLists}

WithoutKey(file, key) == [k \in DOMAIN file \ {key} |-> file[k]]
WithKey(file, key, v) == [k \in DOMAIN file |-> IF k = key THEN v ELSE file[k]]
\* The file with a value that is no object under key.
NotObjectAt(file, key) ==
    [k \in DOMAIN file \cup {"not_objects"} |->
        IF k = "not_objects" THEN {key}
        ELSE IF k = key THEN EmptyMap ELSE file[k]]
NamelessAt(file, h) ==
    WithKey(file, "hash_to_documents",
            [x \in DOMAIN file.hash_to_documents |->
                IF x = h
                THEN [i \in DOMAIN file.hash_to_documents[x] |->
                         [chunk_index |-> file.hash_to_documents[x][i].chunk_index]]
                ELSE file.hash_to_documents[x]])

Files ==
    {NoFile, Garbage, JsonNumber}
    \cup SavedFiles
    \cup {WithoutKey(f, k) : f \in SavedFiles, k \in FileKeys}
    \cup {NotObjectAt(f, k) : f \in SavedFiles, k \in FileKeys}
    \cup UNION {{NamelessAt(f, h) : h \in DOMAIN f.hash_to_documents} : f \in SavedFiles}

\* VectorDBService.delete_document: the chunks of the document's collection
\* are deleted and counted; an exception of the store is raised again.
delete_document(document_name, fails) ==
    IF fails
    THEN [vector_db |-> vector_db, raised |-> TRUE, ret |-> 0]
    ELSE [vector_db |-> Del(vector_db, document_name), raised |-> FALSE,
          ret |-> IF document_name \in DOMAIN vector_db
                  THEN vector_db[document_name] ELSE 0]

\* DocumentProcessor.delete_document_from_vector_db: the store's delete, then
\* the index's remove_document; an exception is logged and raised again, the
\* number of chunks the store deleted is returned.
delete_document_from_vector_db(document_name, fails) ==
    LET v == delete_document(document_name, fails)
        r == RemoveOutcome(document_name)
    IN /\ vector_db' = v.vector_db
       /\ IF v.raised
          THEN /\ last' = [op |-> "delete_document_from_vector_db",
                           doc |-> document_name, raised |-> TRUE,
                           vector_failed |-> TRUE, index_called |-> FALSE,
                           index_failed |-> FALSE, ret |-> 0]
               /\ UNCHANGED <<hash_to_documents, document_to_hashes>>
          ELSE /\ last' = [op |-> "delete_document_from_vector_db",
                           doc |-> document_name, raised |-> FALSE,
                           vector_failed |-> FALSE, index_called |-> TRUE,
                           index_failed |-> r.failed, ret |-> v.ret]
               /\ hash_to_documents' = r.hash_to_documents
               /\ document_to_hashes' = r.document_to_hashes
       /\ UNCHANGED <<sentence_hash_to_documents, document_to_sentence_hashes,
                      persistence_file, adds>>

Delete ==
    /\ \E d \in Docs, fails \in BOOLEAN : delete_document_from_vector_db(d, fails)
    /\ UNCHANGED <<threads, chunker>>

\* The vector stores a process may find: one chunk for each stored document.
VectorStores == {[d \in S |-> 1] : S \in SUBSET Docs}

\* A process constructed on any of these files.
InitFaults ==
    /\ threads = NoThreads
    /\ vector_db \in VectorStores
    /\ text = <<>>
    /\ sections = NotRun
    /\ section_chunks = NotRun
    /\ persistence_file \in Files
    /\ hash_to_documents = load_data(persistence_file)[1]
    /\ document_to_hashes = load_data(persistence_file)[2]
    /\ sentence_hash_to_documents = load_data(persistence_file)[3]
    /\ document_to_sentence_hashes = load_data(persistence_file)[4]
    /\ last = [op |-> "__init__"]
    /\ adds = 0

NextFaults == Startup \/ Delete

SpecFaults == InitFaults /\ [][NextFaults]_vars

\* ---------------------------------------------------------------- uploads
\* upload_files_vector starts one thread per uploaded file, and each thread
\* calls add_document_chunks on the one ExactMatchService object; no lock is
\* taken around the call.  A thread is pre-empted between bytecodes; the
\* steps below are one iteration of the loop over chunks, the building of
\* the dict that _save_data dumps, and the writing of the file.
Tids == {1, 2}

Running(t) == t \in DOMAIN threads /\ threads[t].pc # "done"

\* thread.start(): the thread has its document and chunks and enters the call.
StartUpload(t, document_name, chunk_list) ==
    /\ t \notin DOMAIN threads
    /\ threads' = Put(threads, t, [op |-> "add_document_chunks", pc |-> "loop",
                                   doc |-> document_name, chunks |-> chunk_list,
                                   todo |-> chunk_list])
    /\ UNCHANGED <<index, vector_db, chunker>>

\* One iteration of 'for chunk in chunks'.
UploadChunk(t) ==
    /\ Running(t) /\ threads[t].op = "add_document_chunks"
    /\ threads[t].pc = "loop" /\ threads[t].todo # <<>>
    /\ LET m == AddChunk(maps, threads[t].doc, Head(threads[t].todo))
       IN /\ hash_to_documents' = m[1]
          /\ document_to_hashes' = m[2]
          /\ sentence_hash_to_documents' = m[3]
          /\ document_to_sentence_hashes' = m[4]
    /\ threads' = Put(threads, t, [threads[t] EXCEPT !.todo = Tail(@)])
    /\ UNCHANGED <<persistence_file, last, adds, vector_db, chunker>>

\* data = {...} of _save_data: dict(self.hash_to_documents) copies the keys
\* and shares the lists, which later appends extend; the two document maps
\* are copied with their sets turned into lists.
UploadSnapshot(t) ==
    /\ Running(t) /\ threads[t].op = "add_document_chunks"
    /\ threads[t].pc = "loop" /\ threads[t].todo = <<>>
    /\ threads' = Put(threads, t,
           [op |-> "add_document_chunks", pc |-> "write",
            doc |-> threads[t].doc, chunks |-> threads[t].chunks,
            hash_keys |-> DOMAIN hash_to_documents,
            sentence_hash_keys |-> DOMAIN sentence_hash_to_documents,
            document_to_hashes |->
                [d \in DOMAIN document_to_hashes |-> SetToList(document_to_hashes[d])],
            document_to_sentence_hashes |->
                [d \in DOMAIN document_to_sentence_hashes |->
                    SetToList(document_to_sentence_hashes[d])]])
    /\ UNCHANGED <<index, vector_db, chunker>>

\* open(self.persistence_file, 'w') and json.dump(data, f), then the return.
UploadWrite(t) ==
    /\ Running(t) /\ threads[t].op = "add_document_chunks"
    /\ threads[t].pc = "write"
    /\ persistence_file' =
           [hash_to_documents |->
                [h \in threads[t].hash_keys |-> hash_to_documents[h]],
            sentence_hash_to_documents |->
                [h \in threads[t].sentence_hash_keys |-> sentence_hash_to_documents[h]],
            document_to_hashes |-> threads[t].document_to_hashes,
            document_to_sentence_hashes |-> threads[t].document_to_sentence_hashes]
    /\ threads' = Put(threads, t, [op |-> "add_document_chunks", pc |-> "done",
                                   doc |-> threads[t].doc, chunks |-> threads[t].chunks])
    /\ last' = [op |-> "add_document_chunks", doc |-> threads[t].doc,
                chunks |-> threads[t].chunks]
    /\ adds' = adds + 1
    /\ UNCHANGED <<hash_to_documents, document_to_hashes, sentence_hash_to_documents,
                   document_to_sentence_hashes, vector_db, chunker>>

NextUploads ==
    \/ \E t \in Tids, d \in Docs, c \in ChunkLists : StartUpload(t, d, c)
    \/ \E t \in Tids : UploadChunk(t)
    \/ \E t \in Tids : UploadSnapshot(t)
    \/ \E t \in Tids : UploadWrite(t)

SpecUploads == Init /\ [][NextUploads]_vars

\* ---------------------------------------------------------------- readers
\* A query and remove_document called from two request threads on the one
\* ExactMatchService object, neither under a lock.  The steps are the
\* membership test, the reading of the document's hash set, one iteration of
\* the loop over the hashes, and the return.
Thread(t, op, pc) ==
    t \in DOMAIN threads /\ threads[t].op = op /\ threads[t].pc = pc

StartRemove(t, document_name) ==
    /\ t \notin DOMAIN threads
    /\ threads' = Put(threads, t, [op |-> "remove_document", pc |-> "check",
                                   doc |-> document_name])
    /\ UNCHANGED <<index, vector_db, chunker>>

\* if document_name not in self.document_to_hashes: return 0
\* document_hashes = self.document_to_hashes[document_name]
RemoveCheck(t) ==
    /\ Thread(t, "remove_document", "check")
    /\ threads' = Put(threads, t,
           IF threads[t].doc \notin DOMAIN document_to_hashes
           THEN [op |-> "remove_document", pc |-> "done", doc |-> threads[t].doc,
                 ret |-> 0]
           ELSE [op |-> "remove_document", pc |-> "loop", doc |-> threads[t].doc,
                 todo |-> document_to_hashes[threads[t].doc], removed_count |-> 0])
    /\ UNCHANGED <<index, vector_db, chunker>>

\* One iteration of 'for content_hash in document_hashes'.
RemoveHash(t) ==
    /\ Thread(t, "remove_document", "loop") /\ threads[t].todo # {}
    /\ LET h == Min(threads[t].todo)
           r == RemoveHashes(<<hash_to_documents, threads[t].removed_count, FALSE>>,
                             threads[t].doc, {h})
       IN /\ hash_to_documents' = r[1]
          /\ threads' = Put(threads, t,
                 IF r[3]
                 THEN [op |-> "remove_document", pc |-> "done",
                       doc |-> threads[t].doc, ret |-> 0]
                 ELSE [threads[t] EXCEPT !.todo = @ \ {h}, !.removed_count = r[2]])
    /\ UNCHANGED <<document_to_hashes, sentence_hash_to_documents,
                   document_to_sentence_hashes, persistence_file, last, adds,
                   vector_db, chunker>>

\* del self.document_to_hashes[document_name] and the return; the KeyError
\* of a key that is gone is caught and 0 is returned.
RemoveReturn(t) ==
    /\ Thread(t, "remove_document", "loop") /\ threads[t].todo = {}
    /\ LET gone == threads[t].doc \notin DOMAIN document_to_hashes
           ret == IF gone THEN 0 ELSE threads[t].removed_count
       IN /\ document_to_hashes' = Del(document_to_hashes, threads[t].doc)
          /\ threads' = Put(threads, t, [op |-> "remove_document", pc |-> "done",
                                         doc |-> threads[t].doc, ret |-> ret])
          /\ last' = [op |-> "remove_document", doc |-> threads[t].doc, ret |-> ret]
    /\ UNCHANGED <<hash_to_documents, sentence_hash_to_documents,
                   document_to_sentence_hashes, persistence_file, adds,
                   vector_db, chunker>>

\* self.document_to_hashes[name]: a missing key of the defaultdict is created.
TouchSet(d, k) == IF k \in DOMAIN d THEN d ELSE Put(d, k, {})

StartCompare(t, doc1_name, doc2_name) ==
    /\ t \notin DOMAIN threads
    /\ threads' = Put(threads, t, [op |-> "compare_documents_exact", pc |-> "check",
                                   doc1 |-> doc1_name, doc2 |-> doc2_name])
    /\ UNCHANGED <<index, vector_db, chunker>>

\* if doc1_name not in self.document_to_hashes or doc2_name not in ...
CompareCheck(t) ==
    /\ Thread(t, "compare_documents_exact", "check")
    /\ threads' = Put(threads, t,
           IF threads[t].doc1 \notin DOMAIN document_to_hashes
              \/ threads[t].doc2 \notin DOMAIN document_to_hashes
           THEN [op |-> "compare_documents_exact", pc |-> "done",
                 doc1 |-> threads[t].doc1, doc2 |-> threads[t].doc2,
                 result |-> PairNotFound]
           ELSE [threads[t] EXCEPT !.pc = "read"])
    /\ UNCHANGED <<index, vector_db, chunker>>

\* doc1_hashes, doc2_hashes and common_hashes.
CompareRead(t) ==
    /\ Thread(t, "compare_documents_exact", "read")
    /\ LET d2h == TouchSet(TouchSet(document_to_hashes, threads[t].doc1),
                           threads[t].doc2)
           common_hashes == CommonHashes(d2h[threads[t].doc1], d2h[threads[t].doc2])
       IN /\ document_to_hashes' = d2h
          /\ threads' = Put(threads, t,
                 [op |-> "compare_documents_exact", pc |-> "loop",
                  doc1 |-> threads[t].doc1, doc2 |-> threads[t].doc2,
                  doc1_total |-> Cardinality(d2h[threads[t].doc1]),
                  doc2_total |-> Cardinality(d2h[threads[t].doc2]),
                  common_total |-> Cardinality(common_hashes),
                  todo |-> common_hashes, matches |-> <<>>])
    /\ UNCHANGED <<hash_to_documents, sentence_hash_to_documents,
                   document_to_sentence_hashes, persistence_file, last, adds,
                   vector_db, chunker>>

\* One iteration of 'for content_hash in common_hashes'.
CompareHash(t) ==
    /\ Thread(t, "compare_documents_exact", "loop") /\ threads[t].todo # {}
    /\ LET h == Min(threads[t].todo)
       IN /\ hash_to_documents' = TouchList(hash_to_documents, h)
          /\ threads' = Put(threads, t,
                 [threads[t] EXCEPT
                     !.todo = @ \ {h},
                     !.matches = @ \o PairMatches(hash_to_documents, <<h>>,
                                                  threads[t].doc1, threads[t].doc2)])
    /\ UNCHANGED <<document_to_hashes, sentence_hash_to_documents,
                   document_to_sentence_hashes, persistence_file, last, adds,
                   vector_db, chunker>>

CompareReturn(t) ==
    /\ Thread(t, "compare_documents_exact", "loop") /\ threads[t].todo = {}
    /\ threads' = Put(threads, t,
           [op |-> "compare_documents_exact", pc |-> "done",
            doc1 |-> threads[t].doc1, doc2 |-> threads[t].doc2,
            result |-> [doc1 |-> threads[t].doc1, doc2 |-> threads[t].doc2,
                        doc1_total_sections |-> threads[t].doc1_total,
                        doc2_total_sections |-> threads[t].doc2_total,
                        common_sections |-> threads[t].common_total,
                        exact_match_score |->
                            SimilarityScore(threads[t].common_total,
                                            threads[t].doc1_total,
                                            threads[t].doc2_total),
                        matches |-> threads[t].matches]])
    /\ UNCHANGED <<index, vector_db, chunker>>

StartFind(t, document_name) ==
    /\ t \notin DOMAIN threads
    /\ threads' = Put(threads, t, [op |-> "find_exact_matches", pc |-> "check",
                                   doc |-> document_name])
    /\ UNCHANGED <<index, vector_db, chunker>>

\* if document_name not in self.document_to_hashes: return {"error": ...}
FindCheck(t) ==
    /\ Thread(t, "find_exact_matches", "check")
    /\ threads' = Put(threads, t,
           IF threads[t].doc \notin DOMAIN document_to_hashes
           THEN [op |-> "find_exact_matches", pc |-> "done", doc |-> threads[t].doc,
                 result |-> NotFound]
           ELSE [threads[t] EXCEPT !.pc = "read"])
    /\ UNCHANGED <<index, vector_db, chunker>>

\* document_hashes = self.document_to_hashes[document_name]
FindRead(t) ==
    /\ Thread(t, "find_exact_matches", "read")
    /\ LET d2h == TouchSet(document_to_hashes, threads[t].doc)
       IN /\ document_to_hashes' = d2h
          /\ threads' = Put(threads, t,
                 [op |-> "find_exact_matches", pc |-> "loop", doc |-> threads[t].doc,
                  total |-> Cardinality(d2h[threads[t].doc]),
                  todo |-> d2h[threads[t].doc], matches |-> <<>>])
    /\ UNCHANGED <<hash_to_documents, sentence_hash_to_documents,
                   document_to_sentence_hashes, persistence_file, last, adds,
                   vector_db, chunker>>

\* One iteration of 'for content_hash in document_hashes'.
FindHash(t) ==
    /\ Thread(t, "find_exact_matches", "loop") /\ threads[t].todo # {}
    /\ LET h == Min(threads[t].todo)
       IN /\ hash_to_documents' = TouchList(hash_to_documents, h)
          /\ threads' = Put(threads, t,
                 [threads[t] EXCEPT
                     !.todo = @ \ {h},
                     !.matches = @ \o ExactMatches(hash_to_documents, <<h>>,
                                                   threads[t].doc)])
    /\ UNCHANGED <<document_to_hashes, sentence_hash_to_documents,
                   document_to_sentence_hashes, persistence_file, last, adds,
                   vector_db, chunker>>

FindReturn(t) ==
    /\ Thread(t, "find_exact_matches", "loop") /\ threads[t].todo = {}
    /\ threads' = Put(threads, t,
           [op |-> "find_exact_matches", pc |-> "done", doc |-> threads[t].doc,
            result |-> [document |-> threads[t].doc,
                        total_unique_sections |-> threads[t].total,
                        exact_matches |-> Len(threads[t].matches),
                        matches |-> threads[t].matches]])
    /\ UNCHANGED <<index, vector_db, chunker>>

\* The indexes of two documents, each added by one call, and their file.
InitReaders ==
    \E ca \in ChunkLists, cb \in ChunkLists :
        LET m == AddChunks(AddChunks(<<EmptyMap, EmptyMap, EmptyMap, EmptyMap>>,
                                     "A", ca), "B", cb)
        IN /\ Idle
           /\ hash_to_documents = m[1]
           /\ document_to_hashes = m[2]
           /\ sentence_hash_to_documents = m[3]
           /\ document_to_sentence_hashes = m[4]
           /\ persistence_file = save_data(m)
           /\ last = [op |-> "add_document_chunks", doc |-> "B", chunks |-> cb]
           /\ adds = 2

\* Thread 1 serves a deletion, thread 2 a query.
Remover == 1
Reader == 2

NextReaders ==
    \/ \E d \in Docs : StartRemove(Remover, d)
    \/ RemoveCheck(Remover)
    \/ RemoveHash(Remover)
    \/ RemoveReturn(Remover)
    \/ \E d1, d2 \in Docs : StartCompare(Reader, d1, d2)
    \/ CompareCheck(Reader)
    \/ CompareRead(Reader)
    \/ CompareHash(Reader)
    \/ CompareReturn(Reader)
    \/ \E d \in Docs : StartFind(Reader, d)
    \/ FindCheck(Reader)
    \/ FindRead(Reader)
    \/ FindHash(Reader)
    \/ FindReturn(Reader)

SpecReaders == InitReaders /\ [][NextReaders]_vars

\* ---------------------------------------------------------------- strings
\* A Python str is kept run-length encoded: a sequence of runs
\* [c |-> character, n |-> repetitions >= 1] in which neighbouring runs have
\* different characters, so that a text of thousands of characters is a
\* short sequence.  Every str operation the SectionChunker uses is computed
\* on the runs.
UpperCase == <<"A", "B", "C", "D", "E", "F", "G", "H", "I", "J", "K", "L", "M",
               "N", "O", "P", "Q", "R", "S", "T", "U", "V", "W", "X", "Y", "Z">>
LowerCase == <<"a", "b", "c", "d", "e", "f", "g", "h", "i", "j", "k", "l", "m",
               "n", "o", "p", "q", "r", "s", "t", "u", "v", "w", "x", "y", "z">>
Digits == {"0", "1", "2", "3", "4", "5", "6", "7", "8", "9"}
Uppers == {UpperCase[i] : i \in DOMAIN UpperCase}
Lowers == {LowerCase[i] : i \in DOMAIN LowerCase}
\* \s of re and the characters str.strip() removes.
Spaces == {" ", "\n", "\t", "\r"}

Run(c, n) == [c |-> c, n |-> n]

\* F of the values of its arguments: Python evaluates an argument or the
\* right-hand side of an assignment once, before the code that uses it.
Bind(v, F(_)) == CHOOSE r \in {F(x) : x \in {v}} : TRUE
Bind2(v, w, F(_, _)) == CHOOSE r \in {F(x, y) : x \in {v}, y \in {w}} : TRUE
Bind3(u, v, w, F(_, _, _)) ==
    CHOOSE r \in {F(x, y, z) : x \in {u}, y \in {v}, z \in {w}} : TRUE

\* The halves of a sequence; len(s) is the sum of the lengths of the halves
\* of s.
Left(v) == SubSeq(v, 1, Len(v) \div 2)
Right(v) == SubSeq(v, (Len(v) \div 2) + 1, Len(v))

RECURSIVE StrLen(_)
StrLen(s) ==
    Bind(s, LAMBDA v :
        IF v = <<>> THEN 0
        ELSE IF Len(v) = 1 THEN v[1].n
        ELSE StrLen(Left(v)) + StrLen(Right(v)))

\* a + b
Cat(a, b) ==
    Bind2(a, b, LAMBDA x, y :
        IF x = <<>> THEN y
        ELSE IF y = <<>> THEN x
        ELSE IF x[Len(x)].c = y[1].c
             THEN SubSeq(x, 1, Len(x) - 1) \o <<Run(y[1].c, x[Len(x)].n + y[1].n)>>
                      \o Tail(y)
             ELSE x \o y)

\* s.lower(), character by character, half by half.
LowerChar(c) ==
    IF c \in Uppers THEN LowerCase[CHOOSE i \in DOMAIN UpperCase : UpperCase[i] = c]
    ELSE c
RECURSIVE Lower(_)
Lower(s) ==
    Bind(s, LAMBDA v :
        IF v = <<>> THEN <<>>
        ELSE IF Len(v) = 1 THEN <<Run(LowerChar(v[1].c), v[1].n)>>
        ELSE Cat(Lower(Left(v)), Lower(Right(v))))

\* The number of runs at the start of s, and at its end, whose character is
\* in cls.
Leading(s, cls) ==
    Bind(s, LAMBDA v :
        IF \A i \in DOMAIN v : v[i].c \in cls THEN Len(v)
        ELSE (CHOOSE i \in DOMAIN v :
                  v[i].c \notin cls /\ \A j \in 1..(i - 1) : v[j].c \in cls) - 1)
Trailing(s, cls) ==
    Bind(s, LAMBDA v :
        IF \A i \in DOMAIN v : v[i].c \in cls THEN Len(v)
        ELSE Len(v) - (CHOOSE i \in DOMAIN v :
                           v[i].c \notin cls /\ \A j \in (i + 1)..Len(v) : v[j].c \in cls))

\* s.lstrip(), s.rstrip(), s.strip()
LStrip(s) == Bind(s, LAMBDA v : SubSeq(v, Leading(v, Spaces) + 1, Len(v)))
RStrip(s) == Bind(s, LAMBDA v : SubSeq(v, 1, Len(v) - Trailing(v, Spaces)))
Strip(s) == RStrip(LStrip(s))

\* sep.join(parts)
RECURSIVE Join(_, _)
Join(sep, parts) ==
    Bind2(sep, parts, LAMBDA x, p :
        IF p = <<>> THEN <<>>
        ELSE IF Len(p) = 1 THEN p[1]
        ELSE Cat(Cat(Join(x, Left(p)), x), Join(x, Right(p))))

\* k times the empty str.
Empties(k) == [i \in 1..k |-> <<>>]

\* s.split(c * width) for a separator of width times the character c that
\* is searched from the left.  A run of n characters c holds n \div width
\* separators, and the n % width characters left over open the next part;
\* the parts of s are the parts of its halves, the last part of the left
\* half going on in the first part of the right half.
SplitRun(r, c, width) ==
    IF r.c = c /\ r.n >= width
    THEN Empties(r.n \div width)
             \o <<IF r.n % width = 0 THEN <<>> ELSE <<Run(c, r.n % width)>>>>
    ELSE <<<<r>>>>
RECURSIVE Split(_, _, _)
Split(s, c, width) ==
    Bind(s, LAMBDA v :
        IF v = <<>> THEN <<<<>>>>
        ELSE IF Len(v) = 1 THEN SplitRun(v[1], c, width)
        ELSE Bind2(Split(Left(v), c, width), Split(Right(v), c, width), LAMBDA a, b :
                 SubSeq(a, 1, Len(a) - 1) \o <<Cat(a[Len(a)], b[1])>> \o Tail(b)))

\* ---------------------------------------------------------------- headers
\* s without its first character.
DropChar(s) ==
    Bind(s, LAMBDA v :
        IF Head(v).n > 1 THEN <<Run(Head(v).c, Head(v).n - 1)>> \o Tail(v) ELSE Tail(v))

\* The elements a header pattern is made of, before its final \s+(.+):
\* one or more characters of a class, exactly one, or at most one; grp says
\* that the element lies inside the first group of the pattern.
Plus(cls, grp) == [kind |-> "plus", cls |-> cls, grp |-> grp]
One(cls, grp) == [kind |-> "one", cls |-> cls, grp |-> grp]
Opt(cls, grp) == [kind |-> "opt", cls |-> cls, grp |-> grp]

Letters == Uppers \cup Lowers
Roman == {"I", "V", "X", "i", "v", "x"}
\* The word Section under re.IGNORECASE.
SectionWord == <<One({"S", "s"}, FALSE), One({"E", "e"}, FALSE), One({"C", "c"}, FALSE),
                 One({"T", "t"}, FALSE), One({"I", "i"}, FALSE), One({"O", "o"}, FALSE),
                 One({"N", "n"}, FALSE)>>

\* self.section_patterns, each matched with re.IGNORECASE.
section_patterns ==
    << <<Plus(Digits, TRUE), One({"."}, FALSE)>>,
       <<Plus(Digits, TRUE), One({"."}, TRUE), Plus(Digits, TRUE), Opt({"."}, FALSE)>>,
       <<Plus(Digits, TRUE), One({"."}, TRUE), Plus(Digits, TRUE), One({"."}, TRUE),
         Plus(Digits, TRUE), Opt({"."}, FALSE)>>,
       <<One(Letters, TRUE), One({"."}, FALSE)>>,
       <<Plus(Roman, TRUE), One({"."}, FALSE)>>,
       SectionWord \o <<Plus(Spaces, FALSE), Plus(Digits, TRUE), Opt({":"}, FALSE)>>,
       SectionWord \o <<Plus(Spaces, FALSE), Plus(Digits, TRUE), Opt({":"}, FALSE)>>,
       <<Plus(Digits, TRUE), One({")"}, FALSE)>>,
       <<One(Letters, TRUE), One({")"}, FALSE)>> >>

NoMatch == [ok |-> FALSE]

\* One element matched at the left of what is left of the line: m holds
\* what is left and what the first group has taken so far.
MatchElem(m, e) ==
    IF ~m.ok THEN m
    ELSE Bind(Leading(m.rest, e.cls), LAMBDA k :
             IF e.kind = "plus"
             THEN IF k = 0 THEN NoMatch
                  ELSE [ok |-> TRUE, rest |-> SubSeq(m.rest, k + 1, Len(m.rest)),
                        number |-> IF e.grp THEN Cat(m.number, SubSeq(m.rest, 1, k))
                                   ELSE m.number]
             ELSE IF k = 0
                  THEN IF e.kind = "opt" THEN m ELSE NoMatch
                  ELSE [ok |-> TRUE, rest |-> DropChar(m.rest),
                        number |-> IF e.grp
                                   THEN Cat(m.number, <<Run(Head(m.rest).c, 1)>>)
                                   ELSE m.number])

\* The elements matched one after the other, those of the left half of
\* elems before those of the right half.
RECURSIVE MatchAll(_, _)
MatchAll(m, elems) ==
    Bind2(m, elems, LAMBDA st, es :
        IF es = <<>> THEN st
        ELSE IF Len(es) = 1 THEN MatchElem(st, es[1])
        ELSE MatchAll(MatchAll(st, Left(es)), Right(es)))

MatchElems(s, elems, number) ==
    MatchAll([ok |-> TRUE, rest |-> s, number |-> number], elems)

\* re.match(pattern, line): the elements, then \s+(.+).  The whitespace is
\* taken greedily and gives one character back when nothing follows it.
MatchPattern(line, elems) ==
    Bind(MatchElems(line, elems, <<>>), LAMBDA m :
        IF ~m.ok THEN NoMatch
        ELSE Bind(Leading(m.rest, Spaces), LAMBDA k :
                 LET after == SubSeq(m.rest, k + 1, Len(m.rest))
                     blanks == SubSeq(m.rest, 1, k)
                 IN IF k = 0 THEN NoMatch
                    ELSE IF after # <<>>
                         THEN [ok |-> TRUE, number |-> m.number, title |-> after]
                    ELSE IF StrLen(blanks) >= 2
                         THEN [ok |-> TRUE, number |-> m.number,
                               title |-> <<Run(blanks[k].c, 1)>>]
                    ELSE NoMatch))

\* Whether every character of s is in cls.
AllIn(s, cls) == Bind(s, LAMBDA v : \A i \in DOMAIN v : v[i].c \in cls)

\* re.match of a pattern that ends with $ on a str without newline.
FullMatch(s, elems) ==
    Bind(MatchElems(s, elems, <<>>), LAMBDA m : m.ok /\ m.rest = <<>>)

\* _determine_section_level with the letter patterns matched in either case.
determine_section_level_ignoring_case(number) ==
    Bind(number, LAMBDA num :
        IF FullMatch(num, <<Plus(Digits, FALSE)>>) THEN 1
        ELSE IF FullMatch(num, <<Plus(Digits, FALSE), One({"."}, FALSE),
                                 Plus(Digits, FALSE)>>) THEN 2
        ELSE IF FullMatch(num, <<Plus(Digits, FALSE), One({"."}, FALSE),
                                 Plus(Digits, FALSE), One({"."}, FALSE),
                                 Plus(Digits, FALSE)>>) THEN 3
        ELSE 1)

\* _determine_section_level (these patterns are matched case-sensitively).
determine_section_level(number) ==
    Bind(number, LAMBDA num :
        IF FullMatch(num, <<Plus(Digits, FALSE)>>) THEN 1
        ELSE IF FullMatch(num, <<Plus(Digits, FALSE), One({"."}, FALSE),
                                 Plus(Digits, FALSE)>>) THEN 2
        ELSE IF FullMatch(num, <<Plus(Digits, FALSE), One({"."}, FALSE),
                                 Plus(Digits, FALSE), One({"."}, FALSE),
                                 Plus(Digits, FALSE)>>) THEN 3
        ELSE IF FullMatch(num, <<One(Uppers, FALSE)>>) THEN 1
        ELSE IF FullMatch(num, <<Plus({"I", "V", "X"}, FALSE)>>) THEN 1
        ELSE IF FullMatch(num, <<One(Lowers, FALSE)>>) THEN 2
        ELSE 1)

\* _is_valid_section
is_valid_section(title) ==
    Bind(title, LAMBDA t :
        /\ StrLen(Strip(t)) >= 2
        /\ StrLen(t) <= 100
        /\ ~(t # <<>> /\ AllIn(t, Digits \cup Spaces \cup {".", "-", "_"})))

\* _match_section_header: the first pattern that matches with a valid title.
match_section_header(line) ==
    Bind(line, LAMBDA l :
        LET Matches(k) ==
                Bind(MatchPattern(l, section_patterns[k]), LAMBDA m :
                    m.ok /\ is_valid_section(Strip(m.title)))
        IN Bind({k \in DOMAIN section_patterns : Matches(k)}, LAMBDA matching :
               IF matching = {} THEN NoMatch
               ELSE Bind(MatchPattern(l, section_patterns[Min(matching)]), LAMBDA m :
                        [ok |-> TRUE, level |-> determine_section_level(m.number),
                         number |-> m.number, title |-> Strip(m.title)])))

\* ---------------------------------------------------------------- sections
Newline == <<Run("\n", 1)>>
Dot == <<Run(".", 1)>>

\* Python's None where a str may stand (no character is spelled "None").
NoneStr == <<Run("None", 1)>>

\* _get_text_position: the lengths of the lines before line_index, each
\* with its newline.
RECURSIVE LinesLength(_, _)
LinesLength(lines, k) ==
    Bind2(lines, k, LAMBDA ls, j :
        IF j = 0 THEN 0
        ELSE IF j = 1 THEN StrLen(ls[1]) + 1
        ELSE LinesLength(ls, j \div 2)
                 + LinesLength(SubSeq(ls, (j \div 2) + 1, j), j - (j \div 2)))

get_text_position(lines, line_index) ==
    Bind2(lines, line_index, LAMBDA ls, j :
        LinesLength(ls, IF j < Len(ls) THEN j ELSE Len(ls)))

\* _find_parent_section without the search for the parent in the sections
\* found so far.
find_parent_section_unchecked(number, existing_sections) ==
    Bind2(number, Split(number, ".", 1), LAMBDA num, parts :
        IF (\E i \in DOMAIN num : num[i].c = ".") /\ Len(parts) > 1
        THEN Join(Dot, SubSeq(parts, 1, Len(parts) - 1))
        ELSE NoneStr)

\* _find_parent_section
find_parent_section(number, existing_sections) ==
    Bind3(number, existing_sections, Split(number, ".", 1), LAMBDA num, existing, parts :
        Bind(Join(Dot, SubSeq(parts, 1, Len(parts) - 1)), LAMBDA parent_number :
            IF (\E i \in DOMAIN num : num[i].c = ".")
               /\ Len(parts) > 1
               /\ \E i \in DOMAIN existing : existing[i].number = parent_number
            THEN parent_number
            ELSE NoneStr))

\* current_section with its content and end position, ready to be appended.
Closed(st, end_pos) ==
    [st.current_section EXCEPT !.content = Strip(Join(Newline, st.content_buffer)),
                               !.end_pos = end_pos]

\* One turn of the loop of detect_sections over enumerate(lines), for line k
\* (from 0); s holds sections, current_section and content_buffer.
DetectLine(lines, k, s) ==
    Bind(Strip(lines[k + 1]), LAMBDA line_stripped :
        Bind2(IF line_stripped # <<>>
              THEN match_section_header(line_stripped) ELSE NoMatch,
              IF s.current_section # None
              THEN Append(s.sections, Closed(s, get_text_position(lines, k)))
              ELSE s.sections,
              LAMBDA section_match, saved :
            IF section_match.ok
            THEN [sections |-> saved,
                  current_section |->
                      [level |-> section_match.level,
                       number |-> section_match.number,
                       title |-> section_match.title,
                       content |-> <<>>,
                       start_pos |-> get_text_position(lines, k),
                       end_pos |-> 0,
                       parent_section |->
                           find_parent_section(section_match.number, saved)],
                  content_buffer |-> <<>>]
            ELSE IF s.current_section # None
                 THEN [s EXCEPT !.content_buffer = Append(@, line_stripped)]
                 ELSE s))

\* The loop over the lines from lo to hi - 1: the first half of them, then
\* the second half.
RECURSIVE DetectLoop(_, _, _, _)
DetectLoop(lines, lo, hi, st) ==
    Bind3(lo, hi, st, LAMBDA a, b, s :
        IF a >= b THEN s
        ELSE IF b = a + 1 THEN DetectLine(lines, a, s)
        ELSE DetectLoop(lines, (a + b) \div 2, b,
                        DetectLoop(lines, a, (a + b) \div 2, s)))

\* The title of the section made of a text without headers.
DocumentContent ==
    <<Run("D", 1), Run("o", 1), Run("c", 1), Run("u", 1), Run("m", 1), Run("e", 1),
      Run("n", 1), Run("t", 1), Run(" ", 1), Run("C", 1), Run("o", 1), Run("n", 1),
      Run("t", 1), Run("e", 1), Run("n", 1), Run("t", 1)>>

\* The section of a text without headers, as the code builds it, and as a
\* slip would build it that keeps the text untrimmed.
WholeTextSectionUntrimmed(t) ==
    [level |-> 1, number |-> <<Run("1", 1)>>, title |-> DocumentContent,
     content |-> t, start_pos |-> 0, end_pos |-> StrLen(t),
     parent_section |-> NoneStr]

WholeTextSection(t) ==
    [level |-> 1, number |-> <<Run("1", 1)>>, title |-> DocumentContent,
     content |-> Strip(t), start_pos |-> 0, end_pos |-> StrLen(t),
     parent_section |-> NoneStr]

detect_sections(t) ==
    Bind2(t, Split(t, "\n", 1), LAMBDA v, lines :
        Bind(DetectLoop(lines, 0, Len(lines),
                        [sections |-> <<>>, current_section |-> None,
                         content_buffer |-> <<>>]),
             LAMBDA st :
            Bind(IF st.current_section # None
                 THEN Append(st.sections, Closed(st, StrLen(v)))
                 ELSE st.sections,
                 LAMBDA found :
                IF found = <<>> THEN <<WholeTextSection(v)>> ELSE found)))

\* ---------------------------------------------------------------- chunks
Space == <<Run(" ", 1)>>
Terminators == {".", "!", "?"}

\* re.sub(r'\s+', ' ', s): every whitespace character becomes a space, and
\* every run of spaces one space.
RECURSIVE Blanked(_)
Blanked(s) ==
    Bind(s, LAMBDA v :
        IF v = <<>> THEN <<>>
        ELSE IF Len(v) = 1 THEN <<Run(IF v[1].c \in Spaces THEN " " ELSE v[1].c, v[1].n)>>
        ELSE Cat(Blanked(Left(v)), Blanked(Right(v))))
CollapseSpaces(s) ==
    Bind(Blanked(s), LAMBDA v :
        [i \in DOMAIN v |-> IF v[i].c = " " THEN Run(" ", 1) ELSE v[i]])

\* hashlib.sha256(...).hexdigest(): the digest stands for the text it was
\* computed from (two texts have the same digest exactly when they are equal).
sha256(s) == [sha256 |-> s]

\* The normalisation of _generate_content_hash, as written and with the
\* case kept.
NormalizeKeepCase(t) == CollapseSpaces(Strip(t))
Normalize(t) == CollapseSpaces(Lower(Strip(t)))

generate_content_hash(t) == sha256(Normalize(t))

\* len(s.split()): the words between whitespace.
WordCount(s) ==
    Bind(s, LAMBDA v :
        Cardinality({i \in DOMAIN v :
                         v[i].c \notin Spaces /\ (i = 1 \/ v[i - 1].c \in Spaces)}))

\* The numbers of a set in ascending order.
Ascending(S) ==
    Bind(S, LAMBDA set :
        [j \in 1..Cardinality(set) |->
            CHOOSE x \in set : Cardinality({y \in set : y < x}) = j - 1])

\* The lists of a list, one after the other.
RECURSIVE Flatten(_)
Flatten(lists) ==
    Bind(lists, LAMBDA ls :
        IF ls = <<>> THEN <<>>
        ELSE IF Len(ls) = 1 THEN ls[1]
        ELSE Flatten(Left(ls)) \o Flatten(Right(ls)))

\* re.split of s on a pattern that is one or more characters of cls and,
\* when then # {}, one or more characters of then right after them.  A
\* separator starts where the characters of cls start and spans the runs of
\* cls and then the runs of then; the parts are what lies between the
\* separators.
SplitBlocks(s, cls, then) ==
    Bind(s, LAMBDA v :
        LET EndOf(i, set) == i + Leading(SubSeq(v, i, Len(v)), set) - 1
            SepEnd(i) == EndOf(EndOf(i, cls) + 1, then)
            starts == Ascending({i \in DOMAIN v :
                                     /\ v[i].c \in cls
                                     /\ i = 1 \/ v[i - 1].c \notin cls
                                     /\ then = {} \/ SepEnd(i) > EndOf(i, cls)})
        IN [j \in 1..(Len(starts) + 1) |->
               SubSeq(v, IF j = 1 THEN 1 ELSE SepEnd(starts[j - 1]) + 1,
                         IF j > Len(starts) THEN Len(v) ELSE starts[j] - 1)])

\* _generate_sentence_hashes: the loop over enumerate(sentences).
SentenceHashes(sentences) ==
    Bind(sentences, LAMBDA ss :
        Flatten([k \in 1..Len(ss) |->
                    Bind(Strip(ss[k]), LAMBDA sentence :
                        IF StrLen(sentence) > 10
                        THEN <<[sentence_index |-> k - 1,
                                sentence_text |-> sentence,
                                sentence_hash |->
                                    sha256(CollapseSpaces(Strip(Lower(sentence)))),
                                word_count |-> WordCount(sentence)]>>
                        ELSE <<>>)]))

generate_sentence_hashes(t) == SentenceHashes(SplitBlocks(t, Terminators, {}))

\* The thresholds of create_section_chunks and _subdivide_large_section.
MinSectionChars == 50
PackedChars == 1000
MinParagraphChars == 30
LargeSectionChars == 2000

\* The chunk of section i (from 0) of a document.
SectionChunk(section, i, filename) ==
    Bind3(section, generate_content_hash(section.content),
          generate_sentence_hashes(section.content),
          LAMBDA sec, content_hash, sentence_hashes :
        [text |-> sec.content,
         content_hash |-> content_hash,
         sentence_hashes |-> sentence_hashes,
         metadata |-> [chunk_index |-> <<i>>,
                       section_level |-> sec.level,
                       section_number |-> sec.number,
                       section_title |-> sec.title,
                       parent_section |-> sec.parent_section,
                       start_char |-> sec.start_pos,
                       end_char |-> sec.end_pos,
                       char_count |-> StrLen(sec.content),
                       word_count |-> WordCount(sec.content),
                       chunk_type |-> "section_based",
                       filename |-> filename,
                       content_hash |-> content_hash,
                       hash_type |-> "content",
                       sentence_count |-> Len(sentence_hashes)]])

\* The first loop of create_section_chunks, over enumerate(sections).
SectionChunks(found, filename) ==
    Bind(found, LAMBDA f :
        Flatten([k \in 1..Len(f) |->
                    IF StrLen(Strip(f[k].content)) < MinSectionChars THEN <<>>
                    ELSE <<SectionChunk(f[k], k - 1, filename)>>]))

\* [p.strip() for p in content.split('\n\n') if p.strip()]
Stripped(parts) ==
    Bind(SelectSeq(parts, LAMBDA q : Strip(q) # <<>>), LAMBDA kept :
        [i \in DOMAIN kept |-> Strip(kept[i])])

\* The packing of sentences into paragraphs of _subdivide_large_section:
\* one sentence, the sentences of a list (those of its left half before
\* those of its right half), and the paragraphs at the end; acc is the pair
\* <<paragraphs, current_para>>.
PackSentence(acc, sentence) ==
    Bind2(acc, Cat(sentence, Cat(Dot, Space)), LAMBDA a, ended :
        IF StrLen(Cat(a[2], sentence)) < PackedChars
        THEN <<a[1], Cat(a[2], ended)>>
        ELSE <<IF a[2] # <<>> THEN Append(a[1], Strip(a[2])) ELSE a[1], ended>>)

RECURSIVE PackAll(_, _)
PackAll(acc, sentences) ==
    Bind2(acc, sentences, LAMBDA a, ss :
        IF ss = <<>> THEN a
        ELSE IF Len(ss) = 1 THEN PackSentence(a, ss[1])
        ELSE PackAll(PackAll(a, Left(ss)), Right(ss)))

Pack(sentences) ==
    Bind(PackAll(<<<<>>, <<>>>>, sentences), LAMBDA a :
        IF a[2] # <<>> THEN Append(a[1], Strip(a[2])) ELSE a[1])

\* The loop over enumerate(paragraphs) that makes the sub-chunks.
SubChunks(chunk, paragraphs) ==
    Bind2(chunk, paragraphs, LAMBDA parent, paras :
        Flatten([k \in 1..Len(paras) |->
            Bind2(paras[k], generate_content_hash(paras[k]),
                  LAMBDA para, sub_content_hash :
                IF StrLen(Strip(para)) < MinParagraphChars THEN <<>>
                ELSE <<[text |-> para,
                        content_hash |-> sub_content_hash,
                        metadata |->
                            [key \in DOMAIN parent.metadata \cup {"sub_chunk_index"} |->
                                IF key = "chunk_index"
                                THEN parent.metadata.chunk_index \o <<k - 1>>
                                ELSE IF key = "sub_chunk_index" THEN k - 1
                                ELSE IF key = "char_count" THEN StrLen(para)
                                ELSE IF key = "word_count" THEN WordCount(para)
                                ELSE IF key = "chunk_type" THEN "section_subdivision"
                                ELSE IF key = "content_hash" THEN sub_content_hash
                                ELSE IF key = "hash_type" THEN "content"
                                ELSE parent.metadata[key]]]>>)]))

\* _subdivide_large_section returning sub_chunks even when there is none.
subdivide_large_section_or_nothing(chunk) ==
    Bind2(chunk, Stripped(Split(chunk.text, "\n", 2)), LAMBDA parent, by_blank_line :
        SubChunks(parent,
                  IF Len(by_blank_line) <= 1
                  THEN Pack(SplitBlocks(parent.text, Terminators, Spaces))
                  ELSE by_blank_line))

\* _subdivide_large_section
subdivide_large_section(chunk) ==
    Bind2(chunk, Stripped(Split(chunk.text, "\n", 2)), LAMBDA parent, by_blank_line :
        Bind(SubChunks(parent,
                       IF Len(by_blank_line) <= 1
                       THEN Pack(SplitBlocks(parent.text, Terminators, Spaces))
                       ELSE by_blank_line),
             LAMBDA sub_chunks :
            IF sub_chunks # <<>> THEN sub_chunks ELSE <<parent>>))

\* The second loop of create_section_chunks.
Refined(cs) ==
    Bind(cs, LAMBDA v :
        Flatten([k \in 1..Len(v) |->
                    IF v[k].metadata.char_count > LargeSectionChars
                    THEN subdivide_large_section(v[k]) ELSE <<v[k]>>]))

create_section_chunks(t, filename) ==
    Refined(SectionChunks(detect_sections(t), filename))

\* ---------------------------------------------------------------- documents
\* The str of a sequence of characters, and n times one character.
RECURSIVE Str(_)
Str(chars) ==
    Bind(chars, LAMBDA cs :
        IF cs = <<>> THEN <<>>
        ELSE IF Len(cs) = 1 THEN <<Run(cs[1], 1)>>
        ELSE Cat(Str(Left(cs)), Str(Right(cs))))
Chars(c, n) == <<Run(c, n)>>

\* Paragraphs are separated by a blank line, sentences by ". ".
BlankLine == <<Run("\n", 2)>>
Paragraphs(parts) == Join(BlankLine, parts)
Sentences(parts) == Join(Cat(Dot, Space), parts)

\* The whitespace around the text of a document.
Margins == {<<>>, Chars(" ", 2), Chars("\n", 1)}

\* Texts without a header line: one block of characters of a length around
\* the thresholds of the chunker, and texts of paragraphs and of sentences.
Lengths == {0, 3, 49, 50, 60, 2000, 2001, 2500}
Cores ==
    {Chars("a", n) : n \in Lengths \ {0}}
    \cup {<<>>, Chars("A", 60), Cat(Chars("A", 30), Cat(Chars(" ", 3), Chars("b", 30)))}
    \cup {Paragraphs(<<Chars("A", 1200), Chars("b", 1300)>>),
          Paragraphs(<<Chars("a", 600), Chars("b", 700)>>),
          Paragraphs(<<Chars("a", 2400), Chars("b", 20)>>),
          Paragraphs(<<Chars("c", 20), Chars("d", 2400), Chars("e", 40)>>),
          Paragraphs(<<Chars("a", 30), Chars("b", 30)>>),
          Sentences(<<Chars("x", 900), Chars("Y", 900), Chars("z", 900)>>),
          Sentences(<<Chars("a", 991), Chars("b", 8), Chars("c", 1200)>>),
          Sentences(<<Chars("a", 20), Chars("b", 5), Chars("c", 40)>>)}
Headerless == {Cat(lead, Cat(core, trail)) : lead \in Margins, core \in Cores, trail \in Margins}

\* Texts of header lines and the lines below them.  Two of the header lines
\* are none: a title of digits only, and a number without a blank after it.
Heads ==
    {Str(<<"1", ".", " ", "a", "b">>),
     Str(<<"1", ".", "1", " ", "a", "b">>),
     Str(<<"2", ".", "1", ".", "3", ".", " ", "a", "b">>),
     Str(<<"A", ".", " ", "a", "b">>),
     Str(<<"a", ")", " ", "a", "b">>),
     Str(<<"I", "I", ".", " ", "a", "b">>),
     Str(<<"S", "e", "c", "t", "i", "o", "n", " ", "2", ":", " ", "a", "b">>),
     Str(<<"1", ".", " ", "1", "2">>),
     Str(<<"1", ".", "a", "b">>),
     Str(<<"a", ".", " ", "a", "b">>),
     Str(<<"B", ")", " ", "a", "b">>),
     Str(<<"i", "i", ".", " ", "a", "b">>),
     Str(<<"v", ".", " ", "a", "b">>)}
Bodies ==
    {Chars("a", 10), Chars("A", 60), Chars("a", 2500),
     Paragraphs(<<Chars("a", 1200), Chars("B", 1300)>>),
     Paragraphs(<<Chars("a", 20), Chars("b", 2400)>>)}
Nested ==
    Join(Newline, <<Str(<<"1", ".", " ", "a", "b">>), Chars("a", 60),
                    Str(<<"1", ".", "1", " ", "c", "d">>), Chars("A", 60),
                    Str(<<"2", ".", "1", " ", "e", "f">>),
                    Paragraphs(<<Chars("a", 1200), Chars("b", 1300)>>),
                    Str(<<"b", ")", " ", "g", "h">>), Chars("c", 20)>>)
\* A subsection in front of its section, a sub-subsection below its
\* subsection, and the number of the first subsection once more.
Outline ==
    Join(Newline, <<Str(<<"1", ".", "1", " ", "a", "b">>), Chars("a", 60),
                    Str(<<"1", ".", " ", "c", "d">>), Chars("b", 60),
                    Str(<<"2", ".", "1", " ", "e", "f">>), Chars("c", 60),
                    Str(<<"2", ".", "1", ".", "3", " ", "g", "h">>), Chars("d", 60),
                    Str(<<"1", ".", "1", " ", "i", "j">>), Chars("e", 10)>>)
HeaderDocs ==
    {Join(Newline, <<head, body>>) : head \in Heads, body \in Bodies}
    \cup {Join(Newline, <<body, head, body>>) : head \in Heads, body \in Bodies}
    \cup {Nested, Outline}

\* More than 2000 characters that are two short paragraphs and the blanks
\* between them.
Sparse == Paragraphs(<<Chars("a", 20), Chars(" ", 2000), Chars("b", 20)>>)

Texts == Headerless \cup HeaderDocs \cup {Sparse}

\* ---------------------------------------------------------------- chunker
\* One document goes through the SectionChunker: text is the text extracted
\* from it, sections the list detect_sections returned for it and
\* section_chunks the list create_section_chunks returned.
InitChunker ==
    /\ text \in Texts
    /\ sections = NotRun
    /\ section_chunks = NotRun
    /\ threads = NoThreads
    /\ vector_db = EmptyMap
    /\ hash_to_documents = EmptyMap
    /\ document_to_hashes = EmptyMap
    /\ sentence_hash_to_documents = EmptyMap
    /\ document_to_sentence_hashes = EmptyMap
    /\ persistence_file = NoFile
    /\ last = [op |-> "__init__"]
    /\ adds = 0

\* create_section_chunks(text, filename), detect_sections being its first step.
CreateSectionChunks(filename) ==
    /\ ~section_chunks.run
    /\ sections' = [run |-> TRUE, found |-> detect_sections(text)]
    /\ section_chunks' = [run |-> TRUE, filename |-> filename,
                          chunks |-> create_section_chunks(text, filename)]
    /\ UNCHANGED <<text, index, threads, vector_db>>

NextChunker == \E filename \in Docs : CreateSectionChunks(filename)

SpecChunker == InitChunker /\ [][NextChunker]_vars

\* ================================================================ properties
Indexed(d) == d \in DOMAIN document_to_hashes
RefsOf(h2d, d) == {h \in DOMAIN h2d : OwnRefs(h2d[h], d) # <<>>}

\* C1. Bidirectional consistency: every hash of every document of
\* document_to_hashes is a key of hash_to_documents whose list holds at least
\* one ChunkRef of that document.
C1_BidirectionalConsistency ==
    \A d \in DOMAIN document_to_hashes :
        \A h \in document_to_hashes[d] :
            /\ h \in DOMAIN hash_to_documents
            /\ OwnRefs(hash_to_documents[h], d) # <<>>

\* remove_document removed a document that held hashes, and another
\* document is still indexed.
C1_Witness ==
    /\ last.op = "remove_document" /\ last.ret > 0
    /\ \E d \in DOMAIN document_to_hashes : document_to_hashes[d] # {}

\* C2. Removal completeness: once remove_document(D) has returned,
\* find_exact_matches(D) is the not-found result and no list of
\* hash_to_documents holds a ChunkRef of D.
C2_RemovalCompleteness ==
    last.op = "remove_document" =>
        /\ find_exact_matches(last.doc) = NotFound
        /\ RefsOf(hash_to_documents, last.doc) = {}

\* remove_document removed a document that held two hashes, and the lists
\* of another document are left in hash_to_documents.
C2_Witness ==
    /\ last.op = "remove_document" /\ last.ret = 2
    /\ DOMAIN hash_to_documents # {}

\* C3. remove_document(D) purges D from all four maps: D is a key of neither
\* document map and no list of either hash map holds an entry of D.
C3_PurgedFromAllFourMaps ==
    last.op = "remove_document" =>
        /\ last.doc \notin DOMAIN document_to_hashes
        /\ last.doc \notin DOMAIN document_to_sentence_hashes
        /\ RefsOf(hash_to_documents, last.doc) = {}
        /\ RefsOf(sentence_hash_to_documents, last.doc) = {}

\* C4. Every mutating call persists the four maps before it returns: the
\* index a new process loads equals the in-memory index as of the last
\* completed mutating call.
C4_PersistedAfterEveryMutation ==
    last.op \in {"add_document_chunks", "remove_document"} =>
        load_data(persistence_file) = maps

\* C5. No self-match: no entry of a matching_documents list returned by
\* find_exact_matches(D) has document_name D.
C5_NoSelfMatch ==
    \A d \in DOMAIN document_to_hashes :
        LET matches == find_exact_matches(d).matches
        IN \A i \in DOMAIN matches :
              \A j \in DOMAIN matches[i].matching_documents :
                 matches[i].matching_documents[j].document_name # d

\* A document added twice (the same chunk_index twice under one hash) has a
\* match with another document.
C5_Witness ==
    \E d \in DOMAIN document_to_hashes :
        /\ find_exact_matches(d).matches # <<>>
        /\ \E h \in document_to_hashes[d] :
              LET own == OwnRefs(hash_to_documents[h], d)
              IN /\ Len(own) >= 2 /\ own[1] = own[2]
                 /\ OtherRefs(hash_to_documents[h], d) # <<>>

\* C6. Symmetry: compare_documents_exact(A,B) and compare_documents_exact(B,A)
\* return the same common_sections and the same exact_match_score.
C6_Symmetry ==
    \A a, b \in DOMAIN document_to_hashes :
        /\ compare_documents_exact(a, b).common_sections
              = compare_documents_exact(b, a).common_sections
        /\ compare_documents_exact(a, b).exact_match_score
              = compare_documents_exact(b, a).exact_match_score

\* Two documents with hash sets of different sizes that share a hash.
C6_Witness ==
    \E a, b \in DOMAIN document_to_hashes :
        /\ Cardinality(document_to_hashes[a]) # Cardinality(document_to_hashes[b])
        /\ compare_documents_exact(a, b).common_sections > 0

\* C7. compare_documents_exact(A,B) returns common_sections = |hashes(A) \cap
\* hashes(B)| and exact_match_score = 2 * common_sections / (|hashes(A)| +
\* |hashes(B)|); the score lies in [0,1], is 1 exactly when the two hash sets
\* are identical and non-empty, and is 0 exactly when they are disjoint.
C7_DiceScore ==
    \A a, b \in DOMAIN document_to_hashes :
        LET r == compare_documents_exact(a, b)
            A == document_to_hashes[a]
            B == document_to_hashes[b]
            s == r.exact_match_score
        IN /\ r.common_sections = Cardinality(A \cap B)
           /\ s.den > 0
           /\ s.num * (Cardinality(A) + Cardinality(B)) = 2 * r.common_sections * s.den
           /\ 0 <= s.num /\ s.num <= s.den
           /\ (s.num = s.den) <=> (A = B /\ A # {})
           /\ (s.num = 0) <=> (A \cap B = {})

\* 5 and 6 sections with 3 shared: common_sections 3 and score 6/11.
C7_Witness ==
    /\ Indexed("A") /\ Indexed("B")
    /\ Cardinality(document_to_hashes["A"]) = 5
    /\ Cardinality(document_to_hashes["B"]) = 6
    /\ compare_documents_exact("A", "B").common_sections = 3
    /\ compare_documents_exact("A", "B").exact_match_score = [num |-> 6, den |-> 11]

\* C8. Each query that takes document names returns the structured not-found
\* result exactly when at least one named document is not indexed.
C8_NotFoundIffNotIndexed ==
    \A d1, d2 \in Docs :
        /\ IsError(find_exact_matches(d1)) <=> ~Indexed(d1)
        /\ IsError(compare_documents_exact(d1, d2)) <=> ~(Indexed(d1) /\ Indexed(d2))
        /\ IsError(compare_documents_sentence_level(d1, d2))
              <=> ~(Indexed(d1) /\ Indexed(d2))
        /\ IsError(get_document_differences(d1, d2)) <=> ~(Indexed(d1) /\ Indexed(d2))

\* C9. find_duplicate_sections reports a hash exactly when two or more
\* distinct documents share it, each such hash once; get_document_stats
\* counts a hash as duplicate under the same condition and as unique when it
\* belongs to exactly one document.
DocumentsOf(h) ==
    {hash_to_documents[h][i].document_name : i \in DOMAIN hash_to_documents[h]}

C9_DuplicatesAreSharedHashes ==
    LET duplicates == find_duplicate_sections.duplicates
        stats == get_document_stats
        shared == {h \in DOMAIN hash_to_documents : Cardinality(DocumentsOf(h)) >= 2}
        single == {h \in DOMAIN hash_to_documents : Cardinality(DocumentsOf(h)) = 1}
    IN /\ {duplicates[i].content_hash : i \in DOMAIN duplicates} = shared
       /\ \A i, j \in DOMAIN duplicates :
             duplicates[i].content_hash = duplicates[j].content_hash => i = j
       /\ stats.duplicate_content_hashes = Cardinality(shared)
       /\ stats.unique_content_hashes = Cardinality(single)

\* C10. add_document_chunks is not idempotent.
\* The ChunkRefs one call add_document_chunks(d, chunks) appends under hash h.
RefsFor(d, chunks, h) ==
    LET sel == SelectSeq(chunks, LAMBDA c : c.content_hash = h)
    IN [i \in 1..Len(sel) |-> chunk_ref(d, sel[i])]

HashesIn(chunks) == {chunks[i].content_hash : i \in DOMAIN chunks} \ {NoHash}

\* The index holds of document d exactly what one call
\* add_document_chunks(d, chunks) with a hashed chunk put there.
AfterOneCall(d, chunks) ==
    /\ HashesIn(chunks) # {}
    /\ Indexed(d) /\ document_to_hashes[d] = HashesIn(chunks)
    /\ \A h \in Hashes :
          OwnRefs(GetList(hash_to_documents, h), d) = RefsFor(d, chunks, h)

\* The step is a call add_document_chunks(d, chunks) on an index that holds
\* of d exactly what one earlier call with the same chunks put there.
SecondCall == adds' = adds + 1 /\ AfterOneCall(last'.doc, last'.chunks)

\* C10 as stated: the second call with the same name and chunks appends one
\* more ChunkRef per hashed chunk, each affected ref list then holds the
\* document twice, and document_to_hashes[document] is unchanged.
C10_SecondAddHoldsTwice ==
    [][SecondCall =>
          LET d == last'.doc
              c == last'.chunks
          IN /\ \A h \in Hashes :
                   /\ GetList(hash_to_documents', h)
                         = GetList(hash_to_documents, h) \o RefsFor(d, c, h)
                   /\ h \in HashesIn(c) =>
                         Len(OwnRefs(GetList(hash_to_documents', h), d)) = 2
             /\ document_to_hashes'[d] = document_to_hashes[d]]_vars

\* C10 as amended: each affected ref list then holds the document twice as
\* often as after the first call, once more for every chunk of the call with
\* that hash.
C10_SecondAddAppendsAgain ==
    [][SecondCall =>
          LET d == last'.doc
              c == last'.chunks
          IN /\ \A h \in Hashes :
                   /\ GetList(hash_to_documents', h)
                         = GetList(hash_to_documents, h) \o RefsFor(d, c, h)
                   /\ Len(OwnRefs(GetList(hash_to_documents', h), d))
                         = 2 * Len(RefsFor(d, c, h))
                   /\ h \in HashesIn(c) =>
                         Len(OwnRefs(GetList(hash_to_documents', h), d)) >= 2
             /\ document_to_hashes'[d] = document_to_hashes[d]]_vars

\* The last call was add_document_chunks(d, chunks) and the index holds of d
\* what two such calls put there.
C10_Witness ==
    /\ last.op = "add_document_chunks"
    /\ HashesIn(last.chunks) # {}
    /\ \A h \in Hashes :
          OwnRefs(GetList(hash_to_documents, h), last.doc)
             = RefsFor(last.doc, last.chunks, h) \o RefsFor(last.doc, last.chunks, h)
\* ---------------------------------------------------------------- C12
\* The file is missing, does not parse, or parses to something that is no
\* object or has a top-level key that is no object.
Malformed(file) ==
    \/ file \in {NoFile, Garbage}
    \/ file = JsonNumber
    \/ NotObjects(file) # {}

\* C12: after start-up on a missing or malformed persistence file all four
\* maps are empty (never a partially loaded subset of them).
C12_MalformedFileStartsEmpty ==
    (last.op = "__init__" /\ Malformed(persistence_file))
        => maps = <<EmptyMap, EmptyMap, EmptyMap, EmptyMap>>
\* ---------------------------------------------------------------- C13
\* A step that is an add_document_chunks call whose persistence write failed.
FailedWrite == adds' = adds + 1 /\ "write" \in DOMAIN last'

\* C13: when the persistence write of add_document_chunks fails, the call does
\* not raise, every hashed chunk of the call is appended to its ref list and
\* recorded for the document, and no other entry of the two content maps
\* changes: the index in memory is what a successful call leaves.
C13_FailedWriteKeepsIndex ==
    [][FailedWrite =>
        LET d == last'.doc
            cs == last'.chunks
        IN /\ ~last'.raised
           /\ DOMAIN hash_to_documents' = DOMAIN hash_to_documents \cup HashesIn(cs)
           /\ \A h \in DOMAIN hash_to_documents' :
                  hash_to_documents'[h] = GetList(hash_to_documents, h) \o RefsFor(d, cs, h)
           /\ \A x \in DOMAIN document_to_hashes' :
                  document_to_hashes'[x] =
                      GetSet(document_to_hashes, x)
                          \cup (IF x = d THEN HashesIn(cs) ELSE {})
           /\ DOMAIN document_to_hashes' =
                  DOMAIN document_to_hashes \cup (IF HashesIn(cs) = {} THEN {} ELSE {d})
           /\ \A x \in (DOMAIN document_to_sentence_hashes) \ {d} :
                  document_to_sentence_hashes'[x] = document_to_sentence_hashes[x]
    ]_vars

\* A failed write after which the file no longer holds the index in memory.
C13_Witness ==
    /\ "write" \in DOMAIN last
    /\ last.op = "add_document_chunks"
    /\ HashesIn(last.chunks) # {}
    /\ Cardinality(DOMAIN document_to_hashes) = 2
    /\ load_data(persistence_file) # maps
\* ---------------------------------------------------------------- C14
\* C14: a deletion that did not raise has invoked both the store's delete
\* and the index's remove_document, and a deletion in which either of the
\* two steps failed has raised instead of returning a count.
C14_DeletionFailureRaises ==
    last.op = "delete_document_from_vector_db" =>
        /\ (~last.raised => last.index_called)
        /\ ((last.vector_failed \/ last.index_failed) => last.raised)
\* ---------------------------------------------------------------- C20
\* A step in which remove_document removed an indexed document.
RemovedStep ==
    /\ last'.op = "remove_document"
    /\ last'.doc \in DOMAIN document_to_hashes
    /\ last'.doc \notin DOMAIN document_to_hashes'

\* C20: no key of hash_to_documents maps to an empty ChunkRef list, whatever
\* adds, removals, queries and restarts were made; remove_document deletes a
\* hash entry exactly when all its ChunkRefs were the removed document's,
\* and leaves the other documents' ChunkRefs, in order, under every other hash.
C20_IndexCompaction ==
    /\ [](\A h \in DOMAIN hash_to_documents : hash_to_documents[h] # <<>>)
    /\ [][RemovedStep =>
            \A h \in DOMAIN hash_to_documents :
                LET d == last'.doc
                    rest == OtherRefs(hash_to_documents[h], d)
                IN /\ h \notin DOMAIN hash_to_documents'
                          <=> (rest = <<>> /\ h \in document_to_hashes[d])
                   /\ h \in DOMAIN hash_to_documents'
                          => hash_to_documents'[h] = rest
       ]_vars

\* A removal that deleted one hash entry and kept a shared one, followed by
\* queries or not.
C20_Witness ==
    /\ last.op = "remove_document"
    /\ last.ret = 2
    /\ Cardinality(DOMAIN hash_to_documents) = 1
    /\ Cardinality(DOMAIN document_to_hashes) = 1
\* ---------------------------------------------------------------- C11
\* Every upload that was started has returned.
UploadsFinished ==
    DOMAIN threads = Tids /\ \A t \in Tids : threads[t].pc = "done"

\* C11: the mutating calls of concurrent uploads do not interleave, so that
\* once all uploads have finished the persistence file holds every document
\* the index in memory holds.
C11_FileHoldsEveryDocument ==
    UploadsFinished =>
        /\ persistence_file # NoFile
        /\ DOMAIN document_to_hashes \subseteq DOMAIN persistence_file.document_to_hashes
\* ---------------------------------------------------------------- C19
Returned(t, op) == Thread(t, op, "done") /\ ~IsError(threads[t].result)

\* C19: a query that ran while remove_document ran answers from the index as
\* it was before or after the removal: compare_documents_exact returns as
\* many matches as it reports common sections, and find_exact_matches
\* returns no match without its section_info.
C19_ConsistentSnapshot ==
    \A t \in DOMAIN threads :
        /\ Returned(t, "compare_documents_exact") =>
               Len(threads[t].result.matches) >= threads[t].result.common_sections
        /\ Returned(t, "find_exact_matches") =>
               \A i \in DOMAIN threads[t].result.matches :
                   threads[t].result.matches[i].section_info # None

\* ---------------------------------------------------------------- C15
\* Whether no line of t is a header line with a valid title.
HeaderLines(t) ==
    LET lines == Split(t, "\n", 1)
    IN {i \in DOMAIN lines :
            Strip(lines[i]) # <<>> /\ match_section_header(Strip(lines[i])).ok}
NoHeader(t) == HeaderLines(t) = {}

\* C15. detect_sections never returns an empty list, and for a text without
\* a header line it returns exactly one Section: level 1, number "1", title
\* "Document Content", no parent, the trimmed whole text as content,
\* start_pos 0 and end_pos the length of the text.
C15_WholeTextSection ==
    sections.run =>
        /\ sections.found # <<>>
        /\ NoHeader(text) =>
               sections.found =
                   <<[level |-> 1,
                      number |-> Str(<<"1">>),
                      title |-> Str(<<"D", "o", "c", "u", "m", "e", "n", "t", " ",
                                      "C", "o", "n", "t", "e", "n", "t">>),
                      parent_section |-> NoneStr,
                      content |-> Strip(text),
                      start_pos |-> 0,
                      end_pos |-> StrLen(text)]>>

\* A text without header line and with whitespace around it went through
\* detect_sections.
C15_Witness ==
    /\ sections.run
    /\ NoHeader(text)
    /\ Strip(text) # <<>>
    /\ LStrip(text) # text
    /\ RStrip(text) # text
    /\ Len(sections.found) = 1

\* ---------------------------------------------------------------- C16
TrimmedLength(t) == StrLen(Strip(t))

\* C16, as claimed. A text without header line whose trimmed length is at
\* least 50 characters, however long, gives exactly one chunk.
C16_HeaderlessOneChunk ==
    (section_chunks.run /\ NoHeader(text) /\ TrimmedLength(text) >= 50)
        => Len(section_chunks.chunks) = 1

\* C16, amended. A text without header line whose trimmed length is at
\* least 50 and at most 2000 characters gives exactly one chunk; above 2000
\* characters its one section is subdivided and gives one or more chunks.
C16_HeaderlessOneChunkUpToThreshold ==
    (section_chunks.run /\ NoHeader(text)) =>
        /\ (TrimmedLength(text) >= 50 /\ TrimmedLength(text) <= 2000)
               => Len(section_chunks.chunks) = 1
        /\ TrimmedLength(text) > 2000 => Len(section_chunks.chunks) >= 1

\* A text without header line of two paragraphs and of at most 2000
\* characters was chunked, and one of exactly 2000 characters.
C16_Witness ==
    /\ section_chunks.run
    /\ NoHeader(text)
    /\ \/ TrimmedLength(text) = 2000
       \/ /\ TrimmedLength(text) > 1000
          /\ TrimmedLength(text) <= 2000
          /\ Len(Split(Strip(text), "\n", 2)) = 2
    /\ Len(section_chunks.chunks) = 1

\* ---------------------------------------------------------------- C17
\* s.upper(), character by character.
UpperChar(c) ==
    IF c \in Lowers THEN UpperCase[CHOOSE i \in DOMAIN LowerCase : LowerCase[i] = c]
    ELSE c
RECURSIVE Upper(_)
Upper(s) ==
    Bind(s, LAMBDA v :
        IF v = <<>> THEN <<>>
        ELSE IF Len(v) = 1 THEN <<Run(UpperChar(v[1].c), v[1].n)>>
        ELSE Cat(Upper(Left(v)), Upper(Right(v))))

\* s with every run of whitespace made twice as long.
Widened(s) ==
    Bind(s, LAMBDA v :
        [i \in DOMAIN v |-> IF v[i].c \in Spaces THEN Run(v[i].c, 2 * v[i].n) ELSE v[i]])

\* Texts that differ from t in case or in whitespace only.
Respelled(t) ==
    {Upper(t), Lower(t), Widened(t),
     Cat(Chars(" ", 2), Cat(t, Chars("\n", 1))),
     Cat(Chars("\t", 1), Upper(Widened(t)))}

\* Whether s is trimmed, in lower case, and has single spaces only as
\* whitespace.
IsNormalized(s) ==
    /\ \A i \in DOMAIN s : s[i].c \notin Uppers
    /\ \A i \in DOMAIN s : s[i].c \in Spaces => (s[i].c = " " /\ s[i].n = 1)
    /\ s # <<>> => (s[1].c # " " /\ s[Len(s)].c # " ")

\* C17. Every chunk, subdivided or not, has as content_hash the SHA-256 of
\* its normalised text (trimmed, in lower case, every whitespace run one
\* space); normalising twice is normalising once, so the hash of a text is
\* the hash of its normalised text; texts that differ in case or whitespace
\* only have the same hash, whatever the filename, the section or the
\* position of the chunk.
C17_ContentHashOfNormalizedText ==
    section_chunks.run =>
        LET chunks == section_chunks.chunks
        IN /\ \A k \in DOMAIN chunks :
                  LET t == chunks[k].text
                  IN /\ chunks[k].content_hash = sha256(Normalize(t))
                     /\ chunks[k].metadata.content_hash = chunks[k].content_hash
                     /\ IsNormalized(chunks[k].content_hash.sha256)
                     /\ Normalize(Normalize(t)) = Normalize(t)
                     /\ generate_content_hash(Normalize(t)) = generate_content_hash(t)
                     /\ \A r \in Respelled(t) :
                            generate_content_hash(r) = chunks[k].content_hash
           /\ \A j, k \in DOMAIN chunks :
                  Upper(Normalize(chunks[j].text)) = Upper(Normalize(chunks[k].text))
                      => chunks[j].content_hash = chunks[k].content_hash
           /\ \A filename \in Docs :
                  LET others == create_section_chunks(text, filename)
                  IN /\ Len(others) = Len(chunks)
                     /\ \A k \in DOMAIN chunks :
                            others[k].content_hash = chunks[k].content_hash

\* A document gave two chunks of different sections whose texts differ in
\* case only and have the same hash, and a chunk made by subdivision.
C17_Witness ==
    /\ section_chunks.run
    /\ \E j, k \in DOMAIN section_chunks.chunks :
           /\ section_chunks.chunks[j].text # section_chunks.chunks[k].text
           /\ section_chunks.chunks[j].metadata.section_number
                  # section_chunks.chunks[k].metadata.section_number
           /\ section_chunks.chunks[j].content_hash = section_chunks.chunks[k].content_hash
    /\ \E k \in DOMAIN section_chunks.chunks :
           section_chunks.chunks[k].metadata.chunk_type = "section_subdivision"

\* ---------------------------------------------------------------- C18
\* The chunks made of section i (from 0), in the order they were returned.
ChunksOfSection(i) ==
    SelectSeq(section_chunks.chunks, LAMBDA c : c.metadata.chunk_index[1] = i)

\* C18. Every section whose content is longer than 2000 characters gives at
\* least two sub-chunks, none of them longer than the content of the
\* section, with the chunk_index values i.0, i.1, ... without gaps, i being
\* the index of the section's chunk.
C18_LargeSectionSubdivided ==
    section_chunks.run =>
        \A i \in 0..(Len(sections.found) - 1) :
            LET content == sections.found[i + 1].content
                subs == ChunksOfSection(i)
            IN StrLen(content) > 2000 =>
                   /\ Len(subs) >= 2
                   /\ \A j \in DOMAIN subs :
                          /\ StrLen(subs[j].text) <= StrLen(content)
                          /\ subs[j].metadata.chunk_index = <<i, j - 1>>

\* ---------------------------------------------------------------- C21
\* The chunks of a call that carry a content hash, in order.
Hashed(chunks) == SelectSeq(chunks, LAMBDA c : c.content_hash # NoHash)

\* The sentence refs one call add_document_chunks(d, chunks) appends under
\* sentence hash sh on behalf of its hashed chunks.
SentenceRefsFor(d, chunks, sh) ==
    LET sel == SelectSeq(Hashed(chunks),
                         LAMBDA c : \E i \in DOMAIN c.sentence_hashes :
                                       c.sentence_hashes[i].sentence_hash = sh)
    IN [i \in 1..Len(sel) |-> sentence_ref(d, sel[i], sel[i].sentence_hashes[1])]

\* A step that is a completed add_document_chunks call.
AddStep == adds' = adds + 1 /\ last'.op = "add_document_chunks"

\* C21: a chunk without content hash is skipped by add_document_chunks
\* without an error: every list of either hash map grows by exactly the refs
\* of the hashed chunks of the call (the sentences of a hashless chunk are
\* not indexed), the hashed chunks of the same call are all indexed, and a
\* call none of whose chunks has a content hash changes no map, so that its
\* document does not become a key of document_to_hashes.
C21_HashlessChunkSkipped ==
    [][AddStep =>
        LET d == last'.doc
            cs == last'.chunks
        IN /\ NoHash \notin DOMAIN hash_to_documents'
           /\ \A h \in Hashes :
                 GetList(hash_to_documents', h)
                    = GetList(hash_to_documents, h) \o RefsFor(d, cs, h)
           /\ \A sh \in SentHashes :
                 GetList(sentence_hash_to_documents', sh)
                    = GetList(sentence_hash_to_documents, sh)
                         \o SentenceRefsFor(d, cs, sh)
           /\ GetSet(document_to_hashes', d)
                 = GetSet(document_to_hashes, d) \cup HashesIn(cs)
           /\ Hashed(cs) = <<>> => maps' = maps
    ]_vars

\* The last call had a chunk without content hash (with a sentence hash of
\* its own) in front of a chunk with one, and its document, new to the index,
\* holds the hashed chunk only; the other document was added by a call all
\* of whose chunks lacked a content hash and is no key.
C21_Witness ==
    /\ last.op = "add_document_chunks" /\ adds = 2
    /\ Len(last.chunks) = 2
    /\ last.chunks[1].content_hash = NoHash
    /\ last.chunks[1].sentence_hashes # <<>>
    /\ last.chunks[2].content_hash = 2
    /\ DOMAIN document_to_hashes = {last.doc}
    /\ document_to_hashes[last.doc] = {2}
    /\ DOMAIN sentence_hash_to_documents = {}
\* ---------------------------------------------------------------- C22
\* C22: persistence round trip: in every reachable state of the index, the
\* file _save_data writes for the four maps is loaded by _load_data in a new
\* process as four maps equal to them, the values of document_to_hashes and
\* document_to_sentence_hashes being the same sets again.
C22_SaveLoadRoundTrip ==
    LET loaded == load_data(save_data(maps))
    IN /\ loaded = maps
       /\ \A d \in DOMAIN document_to_hashes :
             /\ d \in DOMAIN loaded[2]
             /\ loaded[2][d] = document_to_hashes[d]
       /\ \A d \in DOMAIN document_to_sentence_hashes :
             /\ d \in DOMAIN loaded[4]
             /\ loaded[4][d] = document_to_sentence_hashes[d]

\* A document with two content hashes, and a removed document whose sentence
\* hashes are still held; the file on disk is older than the maps in memory.
C22_Witness ==
    /\ last.op = "remove_document" /\ last.ret > 0
    /\ \E d \in DOMAIN document_to_hashes : Cardinality(document_to_hashes[d]) = 2
    /\ last.doc \in DOMAIN document_to_sentence_hashes
    /\ document_to_sentence_hashes[last.doc] # {}
    /\ load_data(persistence_file) # maps
\* ---------------------------------------------------------------- C27
\* C27: the queries are read-only: called in any state that completed
\* add_document_chunks and remove_document calls and restarts lead to,
\* find_exact_matches, find_duplicate_sections, compare_documents_exact,
\* compare_documents_sentence_level, get_document_differences and
\* get_document_stats leave all four maps unchanged, for known and unknown
\* document names (no lookup creates a key with an empty list or set).
C27_QueriesReadOnly == [][Query => UNCHANGED maps]_vars

\* One document is indexed and shares its hashes with a document that was
\* removed, whose name is unknown to the content maps and known to the
\* sentence maps: the queries look up hashes under both names.
C27_Witness ==
    /\ last.op = "remove_document" /\ last.ret > 0
    /\ last.doc \notin DOMAIN document_to_hashes
    /\ last.doc \in DOMAIN document_to_sentence_hashes
    /\ \E d \in DOMAIN document_to_hashes :
          /\ document_to_hashes[d] = Hashes
          /\ d \in DOMAIN document_to_sentence_hashes
          /\ document_to_sentence_hashes[d] \cap document_to_sentence_hashes[last.doc] # {}
\* ---------------------------------------------------------------- C28
\* The step is a call add_document_chunks(d, ...) or remove_document(d).
MutationOf(d) ==
    \/ \E c \in ChunkLists : add_document_chunks(d, c)
    \/ remove_document(d)

\* The step leaves what the index holds of document o as it was: its two
\* hash sets, and its entries, in order, in every list of the two hash maps.
LeftAlone(o) ==
    /\ (o \in DOMAIN document_to_hashes') <=> (o \in DOMAIN document_to_hashes)
    /\ GetSet(document_to_hashes', o) = GetSet(document_to_hashes, o)
    /\ (o \in DOMAIN document_to_sentence_hashes')
          <=> (o \in DOMAIN document_to_sentence_hashes)
    /\ GetSet(document_to_sentence_hashes', o) = GetSet(document_to_sentence_hashes, o)
    /\ \A h \in Hashes :
          OwnRefs(GetList(hash_to_documents', h), o)
             = OwnRefs(GetList(hash_to_documents, h), o)
    /\ \A sh \in SentHashes :
          OwnRefs(GetList(sentence_hash_to_documents', sh), o)
             = OwnRefs(GetList(sentence_hash_to_documents, sh), o)

\* C28: mutations are local to the named document: add_document_chunks(D, ...)
\* and remove_document(D) leave, for every other document, its sets in
\* document_to_hashes and document_to_sentence_hashes and the sequence of its
\* entries in every list of hash_to_documents and sentence_hash_to_documents
\* unchanged.
C28_MutationsLocal ==
    [][\A d \in Docs : MutationOf(d) => \A o \in Docs \ {d} : LeftAlone(o)]_vars

\* remove_document removed a document with both content hashes while the
\* other document holds both of them, and sentence hashes, too.
C28_Witness ==
    /\ last.op = "remove_document" /\ last.ret = Cardinality(Hashes)
    /\ \E o \in Docs \ {last.doc} :
          /\ Indexed(o) /\ document_to_hashes[o] = Hashes
          /\ \A h \in Hashes : OwnRefs(GetList(hash_to_documents, h), o) # <<>>
          /\ GetSet(document_to_sentence_hashes, o) # {}
\* ---------------------------------------------------------------- C29
\* C29: in every state reached by add_document_chunks and remove_document
\* calls made one after the other, every hash a pairwise query uses resolves
\* to a ChunkRef of the right document, so that nothing is dropped: for
\* indexed A and B, compare_documents_exact(A, B) returns as many matches as
\* common_sections, and the unique counts of get_document_differences(A, B)
\* plus common_sections are the two documents' total_sections.
C29_PairQueriesDropNothing ==
    \A a, b \in DOMAIN document_to_hashes :
        LET c == compare_documents_exact(a, b)
            d == get_document_differences(a, b)
        IN /\ \A h \in document_to_hashes[a] \cup document_to_hashes[b] :
                 /\ h \in document_to_hashes[a]
                       => FirstRef(GetList(hash_to_documents, h), a) # None
                 /\ h \in document_to_hashes[b]
                       => FirstRef(GetList(hash_to_documents, h), b) # None
           /\ Len(c.matches) = c.common_sections
           /\ d.doc1_unique_count + c.common_sections = c.doc1_total_sections
           /\ d.doc2_unique_count + c.common_sections = c.doc2_total_sections

\* Two documents with one common section and one section that only the
\* first of them has; the common hash holds two ChunkRefs.
C29_Witness ==
    \E a, b \in DOMAIN document_to_hashes :
        /\ a # b
        /\ compare_documents_exact(a, b).common_sections = 1
        /\ Len(compare_documents_exact(a, b).matches) = 1
        /\ get_document_differences(a, b).doc1_unique_count = 1
        /\ get_document_differences(a, b).doc2_unique_count = 0
\* ---------------------------------------------------------------- C30
\* Document other is in matching_documents of the match that
\* find_exact_matches(d) returns for hash h.
InMatchingDocuments(d, h, other) ==
    LET matches == find_exact_matches(d).matches
    IN \E i \in DOMAIN matches :
          /\ matches[i].content_hash = h
          /\ \E j \in DOMAIN matches[i].matching_documents :
                matches[i].matching_documents[j].document_name = other

\* Hash h is one of the matches compare_documents_exact(a, b) returns.
ReportedCommon(a, b, h) ==
    LET matches == compare_documents_exact(a, b).matches
    IN \E i \in DOMAIN matches : matches[i].content_hash = h

\* Hash h is one of the duplicates find_duplicate_sections returns.
ReportedDuplicate(h) ==
    LET duplicates == find_duplicate_sections.duplicates
    IN \E i \in DOMAIN duplicates : duplicates[i].content_hash = h

\* C30: the queries agree with each other: for distinct indexed documents A
\* and B and any hash h, B is in matching_documents of the match for h of
\* find_exact_matches(A) exactly when A is in matching_documents of the match
\* for h of find_exact_matches(B), exactly when h is one of the common hashes
\* compare_documents_exact(A, B) reports; and find_duplicate_sections
\* reports every such h.
C30_QueriesAgree ==
    \A a, b \in DOMAIN document_to_hashes :
        a # b =>
            \A h \in Hashes :
                /\ InMatchingDocuments(a, h, b) <=> InMatchingDocuments(b, h, a)
                /\ InMatchingDocuments(a, h, b) <=> ReportedCommon(a, b, h)
                /\ ReportedCommon(a, b, h) <=> ReportedCommon(b, a, h)
                /\ ReportedCommon(a, b, h) => ReportedDuplicate(h)

\* Two documents that share one hash, reported by all four queries, while
\* the other hash, which one of them holds twice, is reported by none of the
\* pairwise ones.
C30_Witness ==
    \E a, b \in DOMAIN document_to_hashes :
        \E h, g \in Hashes :
            /\ a # b /\ h # g
            /\ InMatchingDocuments(a, h, b) /\ InMatchingDocuments(b, h, a)
            /\ ReportedCommon(a, b, h) /\ ReportedDuplicate(h)
            /\ g \in document_to_hashes[a]
            /\ ~InMatchingDocuments(a, g, b) /\ ~ReportedCommon(a, b, g)
\* ---------------------------------------------------------------- C23
\* The shape of a section number: k + 1 groups of digits with single dots
\* between them.
Dots(number) == {i \in DOMAIN number : number[i].c = "."}
Dotted(number, k) ==
    /\ number # <<>>
    /\ AllIn(number, Digits \cup {"."})
    /\ 1 \notin Dots(number) /\ Len(number) \notin Dots(number)
    /\ \A i \in Dots(number) : number[i].n = 1
    /\ Cardinality(Dots(number)) = k

\* The level the claim gives to a number; lower says which level a single
\* lower-case letter has.
LevelOfShape(number, lower) ==
    IF Dotted(number, 0) THEN 1
    ELSE IF Dotted(number, 1) THEN 2
    ELSE IF Dotted(number, 2) THEN 3
    ELSE IF StrLen(number) = 1 /\ AllIn(number, Lowers) THEN lower
    ELSE 1

\* Every section has the level of the shape of its number, and no header
\* line of the form "N.M Title" gave a section of level 1.
LevelsByShape(lower) ==
    sections.run =>
        /\ \A i \in DOMAIN sections.found :
              /\ AllIn(sections.found[i].number, Digits \cup {"."} \cup Letters)
              /\ sections.found[i].level = LevelOfShape(sections.found[i].number, lower)
        /\ LET lines == Split(text, "\n", 1)
           IN \A i \in HeaderLines(text) :
                 MatchPattern(Strip(lines[i]), section_patterns[2]).ok
                     => match_section_header(Strip(lines[i])).level # 1

\* C23, as claimed: the level of every detected section is a function of the
\* shape of its number: an integer gives level 1, N.M level 2, N.M.K level 3,
\* a letter or a Roman numeral in either case level 1; a header line
\* "N.M Title" is never a section of level 1.
C23_LevelByShapeEitherCase == LevelsByShape(1)

\* C23, amended: an integer gives level 1, N.M level 2, N.M.K level 3, an
\* upper-case letter, an upper-case Roman numeral and a lower-case Roman
\* numeral of two or more letters level 1, and a single lower-case letter
\* level 2; a header line "N.M Title" is never a section of level 1.
C23_LevelByShapeAndCase == LevelsByShape(2)

\* A document with a section numbered by an integer, two numbered N.M and
\* one numbered by a lower-case letter went through detect_sections.
C23_Witness ==
    /\ sections.run
    /\ \E i, j, k \in DOMAIN sections.found :
          /\ Dotted(sections.found[i].number, 0) /\ sections.found[i].level = 1
          /\ Dotted(sections.found[j].number, 1) /\ sections.found[j].level = 2
          /\ AllIn(sections.found[k].number, Lowers) /\ sections.found[k].level = 2
\* ---------------------------------------------------------------- C24
\* A number with a dot, without its last dotted component.
ParentNumber(number) ==
    LET last_dot == CHOOSE i \in Dots(number) : \A j \in Dots(number) : j <= i
    IN SubSeq(number, 1, last_dot - 1)

\* C24: parent linkage depends on the order of the sections: a section whose
\* number has a dot has as parent_section its number without the last dotted
\* component exactly when a section with that number comes before it in the
\* list of the document (one that comes only later does not count), and has
\* none otherwise; a section whose number has no dot has none.
C24_ParentEmittedEarlier ==
    sections.run =>
        \A i \in DOMAIN sections.found :
            LET s == sections.found[i]
            IN IF Dots(s.number) = {} THEN s.parent_section = NoneStr
               ELSE /\ s.parent_section \in {ParentNumber(s.number), NoneStr}
                    /\ s.parent_section = ParentNumber(s.number)
                          <=> \E j \in 1..(i - 1) :
                                 sections.found[j].number = ParentNumber(s.number)

\* A subsection without parent in front of the section with its parent's
\* number, a later subsection with the same number that has the parent, and
\* a sub-subsection below its subsection.
C24_Witness ==
    /\ sections.run
    /\ \E i, j, k, l \in DOMAIN sections.found :
          /\ i < j /\ j < k
          /\ Dotted(sections.found[i].number, 1)
          /\ sections.found[i].parent_section = NoneStr
          /\ sections.found[j].number = ParentNumber(sections.found[i].number)
          /\ sections.found[k].number = sections.found[i].number
          /\ sections.found[k].parent_section = sections.found[j].number
          /\ Dotted(sections.found[l].number, 2)
          /\ Dotted(sections.found[l].parent_section, 1)
\* ---------------------------------------------------------------- C25
\* C25: create_section_chunks returns at least one chunk of a detected
\* section (with its section_number and section_title) exactly when the
\* trimmed content of the section has at least 50 characters: shorter
\* sections are discarded and no longer section is lost, an oversized
\* section whose subdivision gives no sub-chunk being returned as the chunk
\* it was before subdivision; and every chunk is of a detected section.
C25_SectionKeptIffFiftyChars ==
    section_chunks.run =>
        /\ \A i \in 0..(Len(sections.found) - 1) :
              LET section == sections.found[i + 1]
                  own == ChunksOfSection(i)
              IN /\ own # <<>> <=> TrimmedLength(section.content) >= 50
                 /\ \A k \in DOMAIN own :
                       /\ own[k].metadata.section_number = section.number
                       /\ own[k].metadata.section_title = section.title
                       /\ own[k].metadata.chunk_type = "section_based"
                             => own = <<SectionChunk(section, i, section_chunks.filename)>>
        /\ \A k \in DOMAIN section_chunks.chunks :
              section_chunks.chunks[k].metadata.chunk_index[1]
                  \in 0..(Len(sections.found) - 1)

\* A section of more than 2000 characters whose paragraphs are all shorter
\* than 30 characters came back as its one chunk, not subdivided.
C25_Witness ==
    /\ section_chunks.run
    /\ Len(sections.found) = 1
    /\ StrLen(sections.found[1].content) > 2000
    /\ Len(Stripped(Split(sections.found[1].content, "\n", 2))) = 2
    /\ Len(section_chunks.chunks) = 1
    /\ section_chunks.chunks[1].metadata.chunk_type = "section_based"
    /\ section_chunks.chunks[1].text = sections.found[1].content
\* ---------------------------------------------------------------- C26
\* C26: subdivision bounds the size of every chunk: every chunk that
\* create_section_chunks returns has a text of at most 2000 characters,
\* whether its section was split at blank lines or by packing sentences.
C26_ChunkAtMostThreshold ==
    section_chunks.run =>
        \A k \in DOMAIN section_chunks.chunks :
            StrLen(section_chunks.chunks[k].text) <= 2000
====
